---------------------------- MODULE Spec2Model ----------------------------
(***************************************************************************)
(* A state-machine model of the automation engine of EdKim155/auto: the    *)
(* workflow StateMachine (src/modules/state_machine.py) and the three      *)
(* orchestrators that drive it (src/bot_automation.py,                     *)
(* src/bot_automation_fast.py, src/bot_automation_tdlib.py) together with  *)
(* the button cache, the stabilization detector, the button analyzer and   *)
(* the click executor as far as the orchestrators use them.                *)
(*                                                                         *)
(* Scheduling.  Everything runs on one asyncio event loop: a callback or   *)
(* a coroutine runs without interruption up to its next `await` that       *)
(* really suspends (asyncio.sleep, a network request).  One action of the  *)
(* model is one such uninterrupted stretch.                                *)
(*                                                                         *)
(* Time.  Time is discrete.  One tick is one timeout-sweep period (the     *)
(* 1.0 s of `_timeout_checker`).  Every configured duration is expressed   *)
(* in ticks, scaled so that the order of the durations is kept and not     *)
(* their ratios: the sleeps below one second take one tick, the            *)
(* stabilization threshold takes two (so that an edit between two polls    *)
(* of wait_for_stabilization keeps a message unstable), and the per-step   *)
(* timeouts of src/config.py (15 s, 15 s, 20 s) take 2, 2 and 3 ticks.     *)
(* Absolute clock readings are replaced by the time elapsed since they     *)
(* were taken (state_entered_at, the last edit of a message) and by the    *)
(* time left on each sleeping coroutine's timer.  A coroutine whose sleep  *)
(* is over runs before time advances and before any later event is         *)
(* handled (asyncio's ready queue is served first in, first out); the      *)
(* return of a network request (a press, a history fetch) has no deadline. *)
(*                                                                         *)
(* Clicks.  In Spec a press is one network request that succeeds or fails  *)
(* (ClickReturn), which is all the orchestrators see of ClickExecutor's    *)
(* retry loop; PressReturn and RetryWake are the steps of that loop.       *)
(*                                                                         *)
(* The conversation with the remote bot is empty when start() is called,   *)
(* and after stop() the client is disconnected (src/main_fast.py), so no   *)
(* event is handled after stop().                                          *)
(***************************************************************************)
EXTENDS Integers, Sequences, FiniteSets, TLC

----------------------------------------------------------------------------
(* Bounds of the model *)

\* message ids the remote bot uses are 1..MaxMsg
MaxMsg == 2
\* triggers are accepted while total_runs < MaxRuns
MaxRuns == 2
\* coroutines (step and check tasks) alive at the same time
MaxTasks == 2
\* events are delivered while total_messages + total_edits < MaxEvents
MaxEvents == 3
\* StateMachine operations called in SpecSM
MaxCalls == 4
\* the largest capacity of the caches of SpecCache
MaxCap == 2
\* SpecDetector: the clock runs from 0 to MaxClock, thresholds are 1..MaxThreshold
MaxClock == 5
MaxThreshold == 3
\* SpecWait: max_wait is 0..MaxWait, check_interval is 1..MaxInterval, and at
\* most MaxEdits edits are recorded
MaxWait == 3
MaxInterval == 2
MaxEdits == 3
\* SpecClick: max_retries is 0..MaxRetries and MaxClicks calls are made
MaxRetries == 3
MaxClicks == 2
\* SpecMatch: lists of up to MaxControls controls and MaxKeywords keywords
MaxControls == 3
MaxKeywords == 2
\* SpecAnalyzers: the two control lists have up to MaxPair controls each
MaxPair == 2

----------------------------------------------------------------------------
(* Program constants, in ticks (see "Time" above) *)

DELAY_AFTER_TRIGGER == 1
DELAY_BETWEEN_CLICKS == 1
STABILIZATION_THRESHOLD == 2
MAX_RETRIES == 3
RETRY_DELAY == 1
MAX_CACHED_MESSAGES == 10
STEP_1_TIMEOUT == 2
STEP_2_TIMEOUT == 2
STEP_3_TIMEOUT == 3
\* asyncio.sleep(1.0) of _timeout_checker
SWEEP_INTERVAL == 1
\* asyncio.sleep(2.0) between the sweep's error() and its reset()
SWEEP_RESET_DELAY == 2
\* asyncio.sleep(1.0) between complete_automation() and reset() in
\* BotAutomation._execute_step_3
COMPLETED_GRACE == 1
\* asyncio.sleep(0.02) / asyncio.sleep(0.1) debounce of _check_stabilization
DEBOUNCE == 1
\* asyncio.sleep(0.05) / asyncio.sleep(0.1) before the reset() that follows
\* complete_automation() in _check_stabilization
CHECK_GRACE == 1
\* check_interval of wait_for_stabilization
CHECK_INTERVAL == 1
\* FloodWaitError: waits above this many seconds abort the click
FLOOD_WAIT_CEILING == 60

None == 0
NoTime == -1

MsgIds == 1..MaxMsg

Min(a, b) == IF a <= b THEN a ELSE b

----------------------------------------------------------------------------
(* Message contents the remote bot sends.  Texts and labels are ASCII      *)
(* stand-ins for the Russian strings of src/config.py.                     *)

TRIGGER_TEXT == "Poyavilis novye perevozki"
SuccessText == "Perevozka uspeshno zarezervirovana"
OtherText == "Vyberite"

Button(text, data) == [text |-> text, callback_data |-> data, row |-> 0, column |-> 0]

MenuButtons == << Button("Spisok pryamyh perevozok", 1) >>
ConfirmButtons == << Button("Podtverdit", 3) >>

\* str.lower() on the strings of the model
Lower(s) ==
    CASE s = "Spisok pryamyh perevozok" -> "spisok pryamyh perevozok"
      [] s = "Gruz A" -> "gruz a"
      [] s = "Podtverdit" -> "podtverdit"
      [] s = "Poyavilis novye perevozki" -> "poyavilis novye perevozki"
      [] s = "Perevozka uspeshno zarezervirovana" -> "perevozka uspeshno zarezervirovana"
      [] s = "Vyberite" -> "vyberite"
      [] s = "Podtverd" -> "podtverd"
      [] s = "GRUZ" -> "gruz"
      [] OTHER -> s

\* `a in b` on the lower-case strings of the model
Substrings ==
    { <<"spisok pryamyh perevozok", "spisok pryamyh perevozok">>,
      <<"pryamyh perevozok", "spisok pryamyh perevozok">>,
      <<"podtverd", "podtverdit">>,
      <<"podtverdit", "podtverdit">>,
      <<"poyavilis novye perevozki", "poyavilis novye perevozki">>,
      <<"Poyavilis novye perevozki", "Poyavilis novye perevozki">>,
      <<"uspeshno zarezervirovana", "perevozka uspeshno zarezervirovana">>,
      <<"perevozka uspeshno", "perevozka uspeshno zarezervirovana">>,
      <<"gruz", "gruz a">> }

\* the empty string is in every string
IsIn(a, b) == a = "" \/ <<a, b>> \in Substrings

BUTTON_1_KEYWORDS == << "spisok pryamyh perevozok", "pryamyh perevozok" >>
BUTTON_3_KEYWORDS == << "podtverdit", "zabronirovat" >>

Content(text, buttons) == [text |-> text, buttons |-> buttons]

Contents ==
    { Content(TRIGGER_TEXT, <<>>),
      Content(TRIGGER_TEXT, MenuButtons),
      Content(OtherText, ConfirmButtons),
      Content(SuccessText, ConfirmButtons) }

Absent == Content("", <<>>)

----------------------------------------------------------------------------
(* Button analyzer (ButtonAnalyzer and FastButtonAnalyzer agree on the     *)
(* operations the orchestrators use)                                       *)

NoButton == [text |-> "", callback_data |-> 0, row |-> -1, column |-> -1]

RECURSIVE FirstAtOrigin(_, _)
FirstAtOrigin(buttons, i) ==
    IF i > Len(buttons) THEN 0
    ELSE IF buttons[i].row = 0 /\ buttons[i].column = 0 THEN i
    ELSE FirstAtOrigin(buttons, i + 1)

\* get_first_button without the search for the button at [0,0]
get_first_button_in_list(buttons) ==
    IF Len(buttons) = 0 THEN NoButton ELSE buttons[1]

get_first_button(buttons) ==
    IF Len(buttons) = 0 THEN NoButton
    ELSE IF FirstAtOrigin(buttons, 1) # 0 THEN buttons[FirstAtOrigin(buttons, 1)]
    ELSE buttons[1]

matches_keywords(button, keywords) ==
    \E k \in 1..Len(keywords) : IsIn(Lower(keywords[k]), Lower(button.text))

RECURSIVE FirstMatching(_, _, _)
FirstMatching(buttons, keywords, i) ==
    IF i > Len(buttons) THEN 0
    ELSE IF matches_keywords(buttons[i], keywords) THEN i
    ELSE FirstMatching(buttons, keywords, i + 1)

\* find_button_by_keywords with the loop over the keywords outside the loop
\* over the buttons
find_button_keyword_first(buttons, keywords) ==
    LET hits == { k \in 1..Len(keywords) :
                    FirstMatching(buttons, << keywords[k] >>, 1) # 0 } IN
    IF hits = {} THEN NoButton
    ELSE buttons[FirstMatching(buttons,
                               << keywords[CHOOSE k \in hits : \A j \in hits : k <= j] >>, 1)]

find_button_by_keywords(buttons, keywords) ==
    IF Len(keywords) = 0 \/ FirstMatching(buttons, keywords, 1) = 0 THEN NoButton
    ELSE buttons[FirstMatching(buttons, keywords, 1)]

find_confirmation_button(buttons, keywords) == find_button_by_keywords(buttons, keywords)

\* FastButtonAnalyzer.get_first_button
fast_get_first_button(buttons) ==
    IF Len(buttons) = 0 THEN NoButton
    ELSE IF FirstAtOrigin(buttons, 1) # 0 THEN buttons[FirstAtOrigin(buttons, 1)]
    ELSE buttons[1]

\* ButtonInfo.matches_keyword of fast_button_analyzer.py: the lower-case text
\* was computed when the ButtonInfo was constructed
matches_keyword(button, keyword_lower) == IsIn(keyword_lower, button.text_lower)

RECURSIVE FastFirstMatching(_, _, _)
FastFirstMatching(buttons, keywords_lower, i) ==
    IF i > Len(buttons) THEN 0
    ELSE IF \E k \in 1..Len(keywords_lower) : matches_keyword(buttons[i], keywords_lower[k])
         THEN i
    ELSE FastFirstMatching(buttons, keywords_lower, i + 1)

\* FastButtonAnalyzer.find_button_by_keywords
fast_find_button_by_keywords(buttons, keywords) ==
    LET keywords_lower == [k \in 1..Len(keywords) |-> Lower(keywords[k])] IN
    IF Len(keywords) = 0 \/ Len(buttons) = 0 THEN NoButton
    ELSE IF FastFirstMatching(buttons, keywords_lower, 1) = 0 THEN NoButton
    ELSE buttons[FastFirstMatching(buttons, keywords_lower, 1)]

RECURSIVE FirstAt(_, _, _, _)
FirstAt(buttons, row, column, i) ==
    IF i > Len(buttons) THEN 0
    ELSE IF buttons[i].row = row /\ buttons[i].column = column THEN i
    ELSE FirstAt(buttons, row, column, i + 1)

\* ButtonAnalyzer.get_button_at_position
get_button_at_position(buttons, row, column) ==
    IF FirstAt(buttons, row, column, 1) = 0 THEN NoButton
    ELSE buttons[FirstAt(buttons, row, column, 1)]

\* FastButtonAnalyzer.get_button_at_position
fast_get_button_at_position(buttons, row, column) ==
    IF FirstAt(buttons, row, column, 1) = 0 THEN NoButton
    ELSE buttons[FirstAt(buttons, row, column, 1)]

\* (b1.row, b1.column) <= (b2.row, b2.column) on tuples
PositionLeq(b1, b2) ==
    b1.row < b2.row \/ (b1.row = b2.row /\ b1.column <= b2.column)

RECURSIVE SortedByPosition(_)
\* sorted(buttons, key=lambda b: (b.row, b.column)): the sort is stable
SortedByPosition(buttons) ==
    IF Len(buttons) = 0 THEN <<>>
    ELSE LET front == SortedByPosition(SubSeq(buttons, 1, Len(buttons) - 1))
             last == buttons[Len(buttons)]
             k == Cardinality({ i \in 1..Len(front) : PositionLeq(front[i], last) })
         IN SubSeq(front, 1, k) \o << last >> \o SubSeq(front, k + 1, Len(front))

\* zip(l1, l2) finds no pair that differs in text, row or column
SamePairs(l1, l2) ==
    \A i \in 1..Min(Len(l1), Len(l2)) :
        ~ (l1[i].text # l2[i].text \/ l1[i].row # l2[i].row \/ l1[i].column # l2[i].column)

\* ButtonAnalyzer.compare_button_structures
compare_button_structures(buttons1, buttons2) ==
    IF Len(buttons1) # Len(buttons2) THEN FALSE
    ELSE SamePairs(SortedByPosition(buttons1), SortedByPosition(buttons2))

\* FastButtonAnalyzer.compare_button_structures
fast_compare_button_structures(buttons1, buttons2) ==
    IF Len(buttons1) # Len(buttons2) THEN FALSE
    ELSE SamePairs(buttons1, buttons2)

get_button_texts(buttons) == [i \in 1..Len(buttons) |-> buttons[i].text]

\* MessageMonitor._is_trigger_message
is_trigger_message(text) == text # "" /\ IsIn(Lower(TRIGGER_TEXT), Lower(text))

\* the success phrases of _check_stabilization in STEP_3
is_success_text(text) ==
    \/ IsIn("uspeshno zarezervirovana", Lower(text))
    \/ IsIn("perevozka uspeshno", Lower(text))

\* has_confirm of _check_stabilization in STEP_2
has_confirm(texts) == \E i \in 1..Len(texts) : IsIn("podtverd", Lower(texts[i]))

\* what extract_buttons returns for a message with the given buttons:
\* BotAutomationTDLib passes message.reply_markup to
\* FastButtonAnalyzer.extract_buttons, which looks for the attribute
\* `reply_markup` on its argument and finds none
extract_buttons(v, buttons) == IF v = "tdlib" THEN <<>> ELSE buttons

----------------------------------------------------------------------------
(* Button cache: the entries in order of recency, least recent first       *)

NoData == [message_id |-> None, text |-> "", buttons |-> <<>>]

MessageData(id, text, buttons) == [message_id |-> id, text |-> text, buttons |-> buttons]

RECURSIVE CacheIndex(_, _, _)
CacheIndex(c, id, i) ==
    IF i > Len(c) THEN 0
    ELSE IF c[i].message_id = id THEN i
    ELSE CacheIndex(c, id, i + 1)

Without(c, id) == SelectSeq(c, LAMBDA e : e.message_id # id)

\* ButtonCache.get_message / the value FastButtonCache.get_message returns
cache_get(c, id) == IF CacheIndex(c, id, 1) = 0 THEN NoData ELSE c[CacheIndex(c, id, 1)]

\* FastButtonCache.get_message moves a hit to the end; ButtonCache's does not
cache_touch(v, c, id) ==
    IF v = "base" \/ CacheIndex(c, id, 1) = 0 THEN c
    ELSE Append(Without(c, id), cache_get(c, id))

Drop(c, n) == IF n <= 0 THEN c ELSE SubSeq(c, n + 1, Len(c))

\* update_message without the eviction that follows an insertion
cache_update_unbounded(v, c, cap, id, text, buttons) ==
    Append(Without(c, id), MessageData(id, text, buttons))

\* update_message: replace or insert as the most recent entry, then evict
\* (FastButtonCache: popitem(last=False); ButtonCache: _cleanup_old_messages)
cache_update(v, c, cap, id, text, buttons) ==
    IF CacheIndex(c, id, 1) # 0
    THEN Append(Without(c, id), MessageData(id, text, buttons))
    ELSE LET n == Append(c, MessageData(id, text, buttons)) IN
         IF Len(n) > cap
         THEN (IF v = "base" THEN Drop(n, Len(n) - cap) ELSE Tail(n))
         ELSE n

\* FastButtonCache.get_latest_message
cache_latest(c) == IF Len(c) = 0 THEN NoData ELSE c[Len(c)]

has_buttons(md) == md.message_id # None /\ Len(md.buttons) > 0

----------------------------------------------------------------------------
(* Stabilization detector, strategy 'wait' (Config.STABILIZATION_STRATEGY):*)
(* per message the time since its last recorded edit, NoTime when none     *)

record_edit(s, id) == [s EXCEPT ![id] = 0]

is_stabilized(s, id) == s[id] # NoTime /\ s[id] >= STABILIZATION_THRESHOLD

----------------------------------------------------------------------------
(* StateMachine *)

NewStateMachine ==
    [ current_state |-> "IDLE",
      previous_state |-> "NONE",
      state_entered_at |-> NoTime,
      trigger_message_id |-> None,
      step_1_message_id |-> None,
      step_2_message_id |-> None,
      total_runs |-> 0,
      successful_runs |-> 0,
      failed_runs |-> 0,
      state_history |-> <<>> ]

\* _reset_context
reset_context(m) ==
    [m EXCEPT !.trigger_message_id = None,
              !.step_1_message_id = None,
              !.step_2_message_id = None]

\* setattr(self, key, value) for the one context key a caller passes
set_context(m, key, value) ==
    CASE key = "trigger_message_id" -> [m EXCEPT !.trigger_message_id = value]
      [] key = "step_1_message_id" -> [m EXCEPT !.step_1_message_id = value]
      [] key = "step_2_message_id" -> [m EXCEPT !.step_2_message_id = value]
      [] OTHER -> m

\* transition_to that leaves state_entered_at alone on the way to IDLE
transition_to_keeping_time(m, new_state, key, value) ==
    LET a == [m EXCEPT !.previous_state = m.current_state,
                       !.current_state = new_state,
                       !.state_entered_at = IF new_state = "IDLE" THEN @ ELSE 0]
        b == set_context(a, key, value)
        c == [b EXCEPT !.state_history =
                 Append(@, [from |-> m.current_state, to |-> new_state])]
    IN  CASE new_state = "IDLE" -> reset_context(c)
          [] new_state = "COMPLETED" -> [c EXCEPT !.successful_runs = @ + 1]
          [] new_state = "ERROR" -> [c EXCEPT !.failed_runs = @ + 1]
          [] OTHER -> c

\* transition_to that resets the context before it sets the context values
transition_to_context_last(m, new_state, key, value) ==
    LET a == [m EXCEPT !.previous_state = m.current_state,
                       !.current_state = new_state,
                       !.state_entered_at = 0]
        c == [a EXCEPT !.state_history =
                 Append(@, [from |-> m.current_state, to |-> new_state])]
    IN  CASE new_state = "IDLE" -> set_context(reset_context(c), key, value)
          [] new_state = "COMPLETED" -> set_context([c EXCEPT !.successful_runs = @ + 1], key, value)
          [] new_state = "ERROR" -> set_context([c EXCEPT !.failed_runs = @ + 1], key, value)
          [] OTHER -> set_context(c, key, value)

\* transition_to that keeps no record of a transition to IDLE
transition_to_unlogged_reset(m, new_state, key, value) ==
    LET a == [m EXCEPT !.previous_state = m.current_state,
                       !.current_state = new_state,
                       !.state_entered_at = 0]
        b == set_context(a, key, value)
        c == [b EXCEPT !.state_history =
                 IF new_state = "IDLE" THEN @
                 ELSE Append(@, [from |-> m.current_state, to |-> new_state])]
    IN  CASE new_state = "IDLE" -> reset_context(c)
          [] new_state = "COMPLETED" -> [c EXCEPT !.successful_runs = @ + 1]
          [] new_state = "ERROR" -> [c EXCEPT !.failed_runs = @ + 1]
          [] OTHER -> c

\* transition_to: state_entered_at becomes "now", i.e. elapsed time 0
transition_to(m, new_state, key, value) ==
    LET a == [m EXCEPT !.previous_state = m.current_state,
                       !.current_state = new_state,
                       !.state_entered_at = 0]
        b == set_context(a, key, value)
        c == [b EXCEPT !.state_history =
                 Append(@, [from |-> m.current_state, to |-> new_state])]
    IN  CASE new_state = "IDLE" -> reset_context(c)
          [] new_state = "COMPLETED" -> [c EXCEPT !.successful_runs = @ + 1]
          [] new_state = "ERROR" -> [c EXCEPT !.failed_runs = @ + 1]
          [] OTHER -> c

reset(m) == transition_to(m, "IDLE", "", None)
is_idle(m) == m.current_state = "IDLE"
is_active(m) == m.current_state \in {"STEP_1", "STEP_2", "STEP_3"}

get_current_timeout(m) ==
    CASE m.current_state = "STEP_1" -> STEP_1_TIMEOUT
      [] m.current_state = "STEP_2" -> STEP_2_TIMEOUT
      [] m.current_state = "STEP_3" -> STEP_3_TIMEOUT
      [] OTHER -> 0

is_timeout_exceeded(m) ==
    IF m.state_entered_at = NoTime \/ ~is_active(m) THEN FALSE
    ELSE m.state_entered_at > get_current_timeout(m)

\* get_elapsed_time, measured in ticks, is followed up to the first value past
\* which no comparison in the code can tell elapsed times apart
ElapsedCap(m) == get_current_timeout(m) + SWEEP_INTERVAL + 1

start_automation(m, id) ==
    transition_to([m EXCEPT !.total_runs = @ + 1], "STEP_1", "trigger_message_id", id)
complete_step_1(m, id) == transition_to(m, "STEP_2", "step_1_message_id", id)
complete_step_2(m, id) == transition_to(m, "STEP_3", "step_2_message_id", id)
complete_automation(m) == transition_to(m, "COMPLETED", "", None)
error(m) == transition_to(m, "ERROR", "", None)


----------------------------------------------------------------------------
(* The orchestrator's state *)

VARIABLES
    variant,              \* "base" BotAutomation, "fast" BotAutomationFast, "tdlib" BotAutomationTDLib
    mode,                 \* self.mode: "full_cycle" or "list_only"
    is_running,           \* self.is_running
    started,              \* start() has been called (handlers registered)
    state_machine,        \* self.state_machine
    current_message_id,   \* self.current_message_id
    last_button_texts,    \* self.last_button_texts (<<>> for None: both are falsy)
    button_cache,         \* self.button_cache
    last_edits,           \* self.stabilization_detector: time since the last edit per id
    click_executor,       \* ClickExecutor's total/successful/failed clicks
    metrics,              \* self._metrics (fast and tdlib)
    message_monitor,      \* the events delivered: MessageMonitor's total_messages and
                          \* total_edits (its triggers_detected, which nothing reads, is
                          \* left out)
    tasks,                \* the suspended step and check coroutines
    sweep,                \* the _timeout_checker coroutine
    observed,             \* history: facts about the current run the properties refer to
    unit,                 \* the cache or detector exercised on its own (SpecCache,
                          \* SpecDetector); not used by the orchestrators
    lastOp                \* history: whether the last action was a trigger accepted or
                          \* rejected, a coroutine resuming, or another action

vars == << variant, mode, is_running, started, state_machine, current_message_id,
           last_button_texts, button_cache, last_edits, click_executor, metrics,
           message_monitor, tasks, sweep, observed, unit, lastOp >>

\* the objects a handler or coroutine reads and writes
World ==
    [ sm |-> state_machine, cur |-> current_message_id, lbt |-> last_button_texts,
      cache |-> button_cache, edits |-> last_edits, exec |-> click_executor,
      metrics |-> metrics ]

StepState(n) == CASE n = 1 -> "STEP_1" [] n = 2 -> "STEP_2" [] n = 3 -> "STEP_3" [] OTHER -> "NONE"

StepTimeout(n) == CASE n = 1 -> STEP_1_TIMEOUT [] n = 2 -> STEP_2_TIMEOUT [] OTHER -> STEP_3_TIMEOUT

(* A coroutine: where it is suspended (pc), the step it executes, the      *)
(* message id it holds, the ticks left on its sleep, the time spent in     *)
(* wait_for_stabilization, the click attempt and button.  run, errs and    *)
(* waited_on are history: total_runs when it was created, the number of    *)
(* ERRORs the sweep had forced when it last suspended, and the id its      *)
(* stabilization wait returned true for.                                   *)
Task(pc, step, msg, timer, waited, attempt, button, run, errs, waited_on) ==
    [ pc |-> pc, step |-> step, msg |-> msg, timer |-> timer, waited |-> waited,
      attempt |-> attempt, button |-> button, run |-> run, errs |-> errs,
      waited_on |-> waited_on ]

Finished(t) == [t EXCEPT !.pc = "done", !.timer = 0]

Result(w, t) == [w |-> w, t |-> t]

\* pcs that sleep on a timer; "press" and "history" wait for the network
TimedPcs == {"check", "delay0", "wait", "retry", "after", "grace", "debounce"}

Outcomes == {"ok", "stale", "invalid", "flood", "flood_long", "timeout", "other"}

----------------------------------------------------------------------------
(* Step coroutines *)

\* self.state_machine.error(...) followed, in fast and tdlib, by
\* self._metrics['failed_cycles'] += 1; the coroutine returns
report_error(v, w, t) ==
    Result([w EXCEPT !.sm = error(@),
                     !.metrics.failed_cycles = IF v = "base" THEN @ ELSE @ + 1],
           Finished(t))

\* click_button_info -> click_button up to the first press (base, fast), or
\* _click_button up to its request (tdlib)
begin_click(v, w, t, msg, button) ==
    Result([w EXCEPT !.exec.total_clicks = IF v = "tdlib" THEN @ ELSE @ + 1],
           [t EXCEPT !.pc = "press", !.timer = 0, !.msg = msg,
                     !.attempt = 0, !.button = button])

\* the button a step selects from the cached buttons
select_button(v, step, buttons) ==
    CASE step = 1 ->
           IF find_button_by_keywords(buttons, BUTTON_1_KEYWORDS) # NoButton
           THEN find_button_by_keywords(buttons, BUTTON_1_KEYWORDS)
           ELSE get_first_button(buttons)
      [] step = 2 ->
           \* base: get_first_button; fast, tdlib: no keywords configured,
           \* step2_button_index = 0 < len(buttons)
           IF v = "base" THEN get_first_button(buttons) ELSE buttons[1]
      [] OTHER ->
           IF find_confirmation_button(buttons, BUTTON_3_KEYWORDS) # NoButton
           THEN find_confirmation_button(buttons, BUTTON_3_KEYWORDS)
           ELSE get_first_button(buttons)

\* _execute_step_N from "Get message data" to the first press
get_and_click(v, w, t) ==
    LET md == cache_get(w.cache, t.msg)
        w1 == [w EXCEPT !.cache = cache_touch(v, @, t.msg)]
        latest == cache_latest(w1.cache)
    IN  IF has_buttons(md)
        THEN begin_click(v, w1, t, t.msg, select_button(v, t.step, md.buttons))
        ELSE IF t.step = 1 /\ v = "fast"
        THEN \* await self.client.get_messages(...)
             Result(w1, [t EXCEPT !.pc = "history", !.timer = 0])
        ELSE IF t.step = 1 /\ v = "tdlib" /\ has_buttons(latest)
        THEN begin_click(v,
                 [w1 EXCEPT !.lbt = get_button_texts(latest.buttons)],
                 t, latest.message_id, select_button(v, 1, latest.buttons))
        ELSE report_error(v, w1, t)

\* one iteration of wait_for_stabilization's loop and, when it returns, the
\* code of _execute_step_N that follows it
poll_wait(v, w, t) ==
    IF ~(t.waited < StepTimeout(t.step))
    THEN report_error(v, w, t)
    ELSE IF is_stabilized(w.edits, t.msg)
    THEN get_and_click(v, w, [t EXCEPT !.waited_on = t.msg])
    ELSE Result(w, [t EXCEPT !.pc = "wait", !.timer = CHECK_INTERVAL,
                             !.waited = @ + CHECK_INTERVAL])

\* _execute_step_2 and _execute_step_3 from their first line: fast goes
\* straight to the cache, base and tdlib wait for stabilization first
execute_step(v, w, t, step, msg) ==
    LET n == [t EXCEPT !.step = step, !.msg = msg, !.waited = 0, !.waited_on = None,
                       !.attempt = 0, !.button = NoButton]
    IN  IF v = "fast" THEN get_and_click(v, w, n) ELSE poll_wait(v, w, n)

\* the messages get_messages returns, newest first, searched for the target
\* button (BotAutomationFast._execute_step_1)
RECURSIVE FindMenu(_, _)
FindMenu(c, id) ==
    IF id < 1 THEN None
    ELSE IF Len(c[id].buttons) > 0
            /\ find_button_by_keywords(c[id].buttons, BUTTON_1_KEYWORDS) # NoButton
    THEN id
    ELSE FindMenu(c, id - 1)

\* BotAutomationFast._execute_step_1 after get_messages has returned
\* (raised = TRUE: it raised)
history_return(v, w, t, c, raised) ==
    LET id == FindMenu(c, MaxMsg)
        hit == cache_get(w.cache, id)
        c1 == cache_touch(v, w.cache, id)
        c2 == IF hit.message_id # None THEN c1
              ELSE cache_touch(v,
                      cache_update(v, c1, MAX_CACHED_MESSAGES, id, c[id].text, c[id].buttons),
                      id)
        md == cache_get(c2, id)
    IN  IF raised \/ id = None
        THEN report_error(v, w, t)
        ELSE begin_click(v,
                [w EXCEPT !.cache = c2, !.lbt = get_button_texts(md.buttons)],
                t, id, select_button(v, 1, md.buttons))

\* after the click has returned success
click_succeeded(v, w, t) ==
    LET w1 == [w EXCEPT !.metrics.total_clicks = IF v = "base" THEN @ ELSE @ + 1] IN
    IF t.step = 3 /\ v = "base"
    THEN Result([w1 EXCEPT !.sm = complete_automation(@)],
                [t EXCEPT !.pc = "grace", !.timer = COMPLETED_GRACE])
    ELSE IF t.step = 3
    THEN Result([w1 EXCEPT !.metrics.successful_cycles = @ + 1,
                           !.metrics.total_cycles = @ + 1],
                [t EXCEPT !.pc = "after", !.timer = DELAY_BETWEEN_CLICKS])
    ELSE Result(w1, [t EXCEPT !.pc = "after", !.timer = DELAY_BETWEEN_CLICKS])

\* ClickExecutor.click_button returning a failed ClickResult
click_failed(v, w, t) ==
    report_error(v, [w EXCEPT !.exec.failed_clicks = @ + 1], t)

\* the press has returned with `outcome` (wait: the seconds of a flood wait)
press_return(v, w, t, outcome, wait) ==
    IF outcome = "ok"
    THEN click_succeeded(v, [w EXCEPT !.exec.successful_clicks = @ + 1], t)
    ELSE IF outcome = "flood"
    THEN IF wait > FLOOD_WAIT_CEILING
         THEN click_failed(v, w, t)
         ELSE Result(w, [t EXCEPT !.pc = "retry", !.timer = wait, !.attempt = @ + 1])
    ELSE IF t.attempt < MAX_RETRIES - 1
    THEN Result(w, [t EXCEPT !.pc = "retry", !.attempt = @ + 1,
                     !.timer = IF outcome = "invalid" THEN RETRY_DELAY * 2 ELSE RETRY_DELAY])
    ELSE click_failed(v, w, t)

\* ClickExecutor.click_button (tdlib: _click_button) from its first press to
\* its return, as its caller sees it: the attempts and sleeps in between
\* change nothing the orchestrator shares, but they take time
click_return(v, w, t, ok) ==
    IF v = "tdlib"
    THEN IF ok THEN click_succeeded(v, w, t) ELSE report_error(v, w, t)
    ELSE IF ok
    THEN click_succeeded(v, [w EXCEPT !.exec.successful_clicks = @ + 1], t)
    ELSE click_failed(v, w, t)

\* the retry sleep is over: the next iteration of `for attempt in range(...)`
retry_wake(v, w, t) ==
    IF t.attempt < MAX_RETRIES
    THEN Result(w, [t EXCEPT !.pc = "press", !.timer = 0])
    ELSE click_failed(v, w, t)

\* BotAutomation._execute_step_3: self.state_machine.reset() after the sleep;
\* _check_stabilization: reset() after complete_automation() and the sleep
grace_done(v, w, t) == Result([w EXCEPT !.sm = reset(@)], Finished(t))

----------------------------------------------------------------------------
(* _check_stabilization *)

\* BotAutomation._check_stabilization, which has no suspension before it
\* awaits _execute_step_2 or _execute_step_3
check_base(v, w, t) ==
    LET md == cache_get(w.cache, t.msg)
        w1 == [w EXCEPT !.cur = t.msg, !.edits = record_edit(@, t.msg)]
    IN  IF ~is_active(w.sm) \/ t.msg = w.cur \/ ~has_buttons(md)
        THEN Result(w, Finished(t))
        ELSE IF w.sm.current_state = "STEP_1"
        THEN execute_step(v, [w1 EXCEPT !.sm = complete_step_1(@, t.msg)], t, 2, t.msg)
        ELSE IF w.sm.current_state = "STEP_2"
        THEN execute_step(v, [w1 EXCEPT !.sm = complete_step_2(@, t.msg)], t, 3, t.msg)
        ELSE Result(w1, Finished(t))

\* fast and tdlib: up to the debounce sleep
check_fast(v, w, t) ==
    LET md == cache_get(w.cache, t.msg)
        w1 == [w EXCEPT !.cache = cache_touch(v, @, t.msg)]
    IN  IF ~is_active(w.sm) THEN Result(w, Finished(t))
        ELSE IF ~has_buttons(md) THEN Result(w1, Finished(t))
        ELSE Result(w1, [t EXCEPT !.pc = "debounce", !.timer = DEBOUNCE,
                          !.step = CASE w.sm.current_state = "STEP_1" -> 1
                                     [] w.sm.current_state = "STEP_2" -> 2
                                     [] OTHER -> 3])

check_start(v, w, t) == IF v = "base" THEN check_base(v, w, t) ELSE check_fast(v, w, t)

\* `self.last_button_texts and current_button_texts == self.last_button_texts`
last_button_texts_equal(lbt, texts) == Len(lbt) > 0 /\ texts = lbt

\* fast and tdlib: after the debounce sleep
debounce_done(v, m, w, t) ==
    LET md == cache_get(w.cache, t.msg)
        w1 == [w EXCEPT !.cache = cache_touch(v, @, t.msg)]
        texts == get_button_texts(md.buttons)
        same == last_button_texts_equal(w.lbt, texts)
        w2 == [w1 EXCEPT !.cur = t.msg, !.lbt = texts]
    IN  IF w.sm.current_state # StepState(t.step) THEN Result(w, Finished(t))
        ELSE IF t.step = 1
        THEN IF ~has_buttons(md) \/ same THEN Result(w1, Finished(t))
             ELSE IF m = "list_only"
             THEN Result([w2 EXCEPT !.sm = complete_automation(complete_step_1(@, t.msg))],
                         [t EXCEPT !.pc = "grace", !.timer = CHECK_GRACE])
             ELSE execute_step(v, [w2 EXCEPT !.sm = complete_step_1(@, t.msg)], t, 2, t.msg)
        ELSE IF t.step = 2
        THEN IF ~has_buttons(md) \/ same \/ ~has_confirm(texts) THEN Result(w1, Finished(t))
             ELSE execute_step(v, [w2 EXCEPT !.sm = complete_step_2(@, t.msg)], t, 3, t.msg)
        ELSE IF md.message_id # None /\ is_success_text(md.text)
        THEN Result([w1 EXCEPT !.sm = complete_automation(@)],
                    [t EXCEPT !.pc = "grace", !.timer = CHECK_GRACE])
        ELSE Result(w1, Finished(t))


----------------------------------------------------------------------------
(* Event handlers *)

Handled(w, spawn) == [w |-> w, spawn |-> spawn]

\* _handle_trigger without its `if not self.state_machine.is_idle(): return`
handle_trigger_unguarded(v, w, id) ==
    Handled(
      [w EXCEPT !.sm = start_automation(@, id),
                !.cur = id,
                !.lbt = IF v = "base" THEN @ ELSE <<>>,
                !.edits = record_edit(@, id)],
      { Task("delay0", 1, id, DELAY_AFTER_TRIGGER, 0, 0, NoButton,
             w.sm.total_runs + 1, w.sm.failed_runs, None) })

\* _handle_trigger
handle_trigger(v, w, id) ==
    IF ~is_idle(w.sm) THEN Handled(w, {})
    ELSE Handled(
           [w EXCEPT !.sm = start_automation(@, id),
                     !.cur = id,
                     !.lbt = IF v = "base" THEN @ ELSE <<>>,
                     !.edits = record_edit(@, id)],
           { Task("delay0", 1, id, DELAY_AFTER_TRIGGER, 0, 0, NoButton,
                  w.sm.total_runs + 1, w.sm.failed_runs, None) })

\* the check task an edit event schedules with asyncio.create_task
check_task(w, id) ==
    Task("check", 0, id, 0, 0, 0, NoButton, w.sm.total_runs, w.sm.failed_runs, None)

\* MessageMonitor._handle_message with the orchestrator's two callbacks
\* (base, fast)
monitor_handle_message(v, w, id, content, is_edit) ==
    LET buttons == extract_buttons(v, content.buttons)
        w1 == IF Len(buttons) > 0
              THEN [w EXCEPT !.cache = cache_update(v, @, MAX_CACHED_MESSAGES, id,
                                                    content.text, buttons)]
              ELSE w
        h == IF is_trigger_message(content.text) THEN handle_trigger(v, w1, id)
             ELSE Handled(w1, {})
        w2 == IF is_edit THEN [h.w EXCEPT !.edits = record_edit(@, id)] ELSE h.w
    IN  IF is_edit /\ is_active(w2.sm) /\ (v = "fast" \/ id = w2.cur)
        THEN Handled(w2, h.spawn \cup {check_task(w2, id)})
        ELSE Handled(w2, h.spawn)

\* BotAutomationTDLib.handle_new_message and handle_message_edit
tdlib_handle_message(v, w, id, content, is_edit) ==
    LET buttons == extract_buttons(v, content.buttons)
        w1 == IF is_edit THEN [w EXCEPT !.edits = record_edit(@, id)] ELSE w
        w2 == [w1 EXCEPT !.cache = cache_update(v, @, MAX_CACHED_MESSAGES, id,
                                                content.text, buttons)]
    IN  IF is_edit
        THEN (IF is_active(w2.sm) THEN Handled(w2, {check_task(w2, id)})
              ELSE Handled(w2, {}))
        ELSE (IF IsIn(TRIGGER_TEXT, content.text)
              THEN handle_trigger(v, w2, id)
              ELSE Handled(w2, {}))

handle_message(v, w, id, content, is_edit) ==
    IF v = "tdlib" THEN tdlib_handle_message(v, w, id, content, is_edit)
    ELSE monitor_handle_message(v, w, id, content, is_edit)

----------------------------------------------------------------------------
(* History the properties refer to *)

\* forced: the number of ERRORs the sweep has forced.  About the current run:
\* failed_runs when its trigger was accepted; whether its step-1 press has
\* returned success; whether that press was answered, before the step timeout,
\* by a new message with buttons; whether a stabilization wait of the run has
\* timed out; acted: the labels of the menu the run is acting on or last acted
\* on (the trigger message's when the run starts, then those of the message
\* of each press)
NewObserved ==
    [ forced |-> 0, failed_base |-> 0, pressed |-> FALSE, answered |-> FALSE,
      unstable |-> FALSE, acted |-> <<>> ]

----------------------------------------------------------------------------
(* Initial state: the orchestrator as constructed *)

NoUnit == [kind |-> "none"]

Constructed ==
    /\ variant \in {"base", "fast", "tdlib"}
    /\ mode \in {"full_cycle", "list_only"}
    /\ (variant = "base" => mode = "full_cycle")
    /\ is_running = FALSE
    /\ started = FALSE
    /\ state_machine = NewStateMachine
    /\ current_message_id = None
    /\ last_button_texts = <<>>
    /\ button_cache = <<>>
    /\ last_edits = [id \in MsgIds |-> NoTime]
    /\ click_executor = [total_clicks |-> 0, successful_clicks |-> 0, failed_clicks |-> 0]
    /\ metrics = [total_cycles |-> 0, successful_cycles |-> 0, failed_cycles |-> 0,
                  total_clicks |-> 0]
    /\ message_monitor = [total_messages |-> 0, total_edits |-> 0]
    /\ tasks = {}
    /\ sweep = [pc |-> "off", timer |-> 0]
    /\ observed = NewObserved
    /\ lastOp = "other"

Init == Constructed /\ unit = NoUnit

\* the shared objects after a handler or coroutine has run
SetWorld(w) ==
    /\ state_machine' = w.sm
    /\ current_message_id' = w.cur
    /\ last_button_texts' = w.lbt
    /\ button_cache' = w.cache
    /\ last_edits' = w.edits
    /\ click_executor' = w.exec
    /\ metrics' = w.metrics

Due(t) == t.pc \in TimedPcs /\ t.timer = 0

\* a coroutine or the sweep is ready to run: the event loop runs it before it
\* handles a later event or lets time pass
Ready == (\E t \in tasks : Due(t)) \/ (sweep.pc \in {"sleep", "delay"} /\ sweep.timer = 0)

----------------------------------------------------------------------------
(* start() and stop() *)

\* start(); the conversation is empty, so _initialize_cache (fast) clears the
\* cache and finds no messages to load
Start ==
    /\ ~started
    /\ started' = TRUE
    /\ is_running' = TRUE
    /\ button_cache' = IF variant = "base" THEN button_cache ELSE <<>>
    /\ sweep' = [pc |-> "sleep", timer |-> SWEEP_INTERVAL]
    /\ lastOp' = "other"
    /\ UNCHANGED << unit, variant, mode, state_machine, current_message_id, last_button_texts,
                    last_edits, click_executor, metrics, message_monitor, tasks, observed >>

Stop ==
    /\ is_running
    /\ ~Ready
    /\ is_running' = FALSE
    /\ state_machine' = reset(state_machine)
    /\ lastOp' = "other"
    /\ UNCHANGED << unit, variant, mode, started, current_message_id, last_button_texts,
                    button_cache, last_edits, click_executor, metrics, message_monitor,
                    tasks, sweep, observed >>

----------------------------------------------------------------------------
(* Events from the transport *)

\* the handler of one event, with the history the properties refer to
Deliver(id, content, is_edit) ==
    LET h == handle_message(variant, World, id, content, is_edit)
        accepted == h.w.sm.total_runs # state_machine.total_runs
        \* the handler has called _handle_trigger
        trigger == IF variant = "tdlib" THEN ~is_edit /\ IsIn(TRIGGER_TEXT, content.text)
                   ELSE is_trigger_message(content.text)
    IN  /\ h.w.sm.total_runs <= MaxRuns
        /\ message_monitor.total_messages + message_monitor.total_edits < MaxEvents
        /\ Cardinality(tasks) + Cardinality(h.spawn) <= MaxTasks
        /\ SetWorld(h.w)
        /\ message_monitor' =
             [ total_messages |-> message_monitor.total_messages + (IF is_edit THEN 0 ELSE 1),
               total_edits |-> message_monitor.total_edits + (IF is_edit THEN 1 ELSE 0) ]
        /\ tasks' = tasks \cup {[t EXCEPT !.errs = observed.forced] : t \in h.spawn}
        /\ observed' =
             IF accepted
             THEN [NewObserved EXCEPT !.forced = observed.forced,
                                      !.failed_base = state_machine.failed_runs,
                                      !.acted = get_button_texts(content.buttons)]
             ELSE IF /\ ~is_edit
                     /\ Len(content.buttons) > 0
                     /\ state_machine.current_state = "STEP_1"
                     /\ ~is_timeout_exceeded(state_machine)
                     /\ observed.pressed
             THEN [observed EXCEPT !.answered = TRUE]
             ELSE observed
        /\ lastOp' = IF ~trigger THEN "other"
                      ELSE IF accepted THEN "trigger_accepted"
                      ELSE "trigger_rejected"
        /\ UNCHANGED << unit, variant, mode, is_running, started, sweep >>

NewMessage ==
    /\ is_running
    /\ ~Ready
    /\ message_monitor.total_messages < MaxMsg
    /\ \E content \in Contents :
         Deliver(message_monitor.total_messages + 1, content, FALSE)

MessageEdited ==
    /\ is_running
    /\ ~Ready
    /\ \E id \in 1..message_monitor.total_messages, content \in Contents :
         Deliver(id, content, TRUE)

----------------------------------------------------------------------------
(* Time *)

Age(n, cap) == IF n = NoTime THEN NoTime ELSE Min(n + 1, cap)

Tick ==
    /\ started
    /\ ~Ready
    /\ tasks' = { IF t.pc \in TimedPcs THEN [t EXCEPT !.timer = @ - 1] ELSE t : t \in tasks }
    /\ sweep' = IF sweep.pc \in {"sleep", "delay"}
                THEN [sweep EXCEPT !.timer = @ - 1] ELSE sweep
    /\ state_machine' = [state_machine EXCEPT
                            !.state_entered_at = Age(@, ElapsedCap(state_machine))]
    /\ last_edits' = [id \in MsgIds |-> Age(last_edits[id], STABILIZATION_THRESHOLD)]
    /\ lastOp' = "other"
    /\ UNCHANGED << unit, variant, mode, is_running, started, current_message_id,
                    last_button_texts, button_cache, click_executor, metrics,
                    message_monitor, observed >>

----------------------------------------------------------------------------
(* _timeout_checker *)

\* the sweep after a sleep: back to `while self.is_running`
sweep_loop == IF is_running THEN [pc |-> "sleep", timer |-> SWEEP_INTERVAL]
              ELSE [pc |-> "done", timer |-> 0]

\* the sweep forcing ERROR in every active state, whatever the time spent
sweep_fires_when_active(m) == is_active(m)

\* the condition under which the sweep forces ERROR
sweep_fires(m) == is_active(m) /\ is_timeout_exceeded(m)

SweepWake ==
    /\ sweep.pc = "sleep" /\ sweep.timer = 0
    /\ IF sweep_fires(state_machine)
       THEN /\ state_machine' = error(state_machine)
            /\ metrics' = [metrics EXCEPT !.failed_cycles =
                              IF variant = "base" THEN @ ELSE @ + 1]
            /\ sweep' = [pc |-> "delay", timer |-> SWEEP_RESET_DELAY]
            /\ observed' = [observed EXCEPT !.forced = @ + 1]
       ELSE /\ sweep' = sweep_loop
            /\ UNCHANGED << state_machine, metrics, observed >>
    /\ lastOp' = "other"
    /\ UNCHANGED << unit, variant, mode, is_running, started, current_message_id,
                    last_button_texts, button_cache, last_edits, click_executor,
                    message_monitor, tasks >>

SweepReset ==
    /\ sweep.pc = "delay" /\ sweep.timer = 0
    /\ state_machine' = reset(state_machine)
    /\ sweep' = sweep_loop
    /\ lastOp' = "other"
    /\ UNCHANGED << unit, variant, mode, is_running, started, current_message_id,
                    last_button_texts, button_cache, last_edits, click_executor, metrics,
                    message_monitor, tasks, observed >>

----------------------------------------------------------------------------
(* Coroutines resuming *)

\* coroutine t has run up to its next suspension (or its end) with result r
Resume(t, r) ==
    /\ SetWorld(r.w)
    /\ tasks' = (tasks \ {t}) \cup
                (IF r.t.pc = "done" THEN {}
                 ELSE {[r.t EXCEPT !.errs = observed.forced]})
    /\ observed' =
         IF t.run # state_machine.total_runs THEN observed
         ELSE IF t.pc \in {"delay0", "wait"} /\ ~(t.waited < StepTimeout(t.step))
         THEN [observed EXCEPT !.unstable = TRUE]
         ELSE IF t.pc = "press" /\ t.step = 1 /\ r.t.pc = "after"
         THEN [observed EXCEPT !.pressed = TRUE]
         ELSE IF t.pc # "press" /\ r.t.pc = "press"
         THEN [observed EXCEPT
                 !.acted = get_button_texts(cache_get(r.w.cache, r.t.msg).buttons)]
         ELSE observed
    /\ lastOp' = "resume"
    /\ UNCHANGED << unit, variant, mode, is_running, started, message_monitor, sweep >>

\* _execute_step_1 after asyncio.sleep(DELAY_AFTER_TRIGGER)
TriggerDelayDone ==
    \E t \in tasks : t.pc = "delay0" /\ t.timer = 0
        /\ Resume(t, poll_wait(variant, World, t))

\* wait_for_stabilization after asyncio.sleep(check_interval)
WaitPoll ==
    \E t \in tasks : t.pc = "wait" /\ t.timer = 0
        /\ Resume(t, poll_wait(variant, World, t))

\* get_messages returns the conversation `reply` (at most one of the messages
\* sent so far, with its current content) or raises
HistoryReturn ==
    \E t \in tasks, raised \in BOOLEAN, id \in 0..message_monitor.total_messages,
       content \in Contents :
        /\ t.pc = "history"
        /\ raised => id = 0
        /\ id = 0 => content = Content(TRIGGER_TEXT, <<>>)
        /\ Resume(t,
                  history_return(variant, World, t,
                                 [i \in MsgIds |-> IF i = id THEN content ELSE Absent],
                                 raised))

\* the click returns, successful or failed, whenever its attempts are over
ClickReturn ==
    \E t \in tasks, ok \in BOOLEAN :
        /\ t.pc = "press"
        /\ Resume(t, click_return(variant, World, t, ok))

\* one press of ClickExecutor.click_button returns or raises
PressReturn ==
    \E t \in tasks, outcome \in Outcomes :
        /\ t.pc = "press"
        /\ Resume(t,
                  press_return(variant, World, t,
                               IF outcome = "flood_long" THEN "flood" ELSE outcome,
                               CASE outcome = "flood" -> 1
                                 [] outcome = "flood_long" -> FLOOD_WAIT_CEILING + 1
                                 [] OTHER -> 0))

RetryWake ==
    \E t \in tasks : t.pc = "retry" /\ t.timer = 0
        /\ Resume(t, retry_wake(variant, World, t))

\* asyncio.sleep(DELAY_BETWEEN_CLICKS) is over: the coroutine ends
ClickDelayDone ==
    \E t \in tasks : t.pc = "after" /\ t.timer = 0
        /\ Resume(t, Result(World, Finished(t)))

GraceDone ==
    \E t \in tasks : t.pc = "grace" /\ t.timer = 0
        /\ Resume(t, grace_done(variant, World, t))

CheckStart ==
    \E t \in tasks : t.pc = "check" /\ t.timer = 0
        /\ Resume(t, check_start(variant, World, t))

DebounceDone ==
    \E t \in tasks : t.pc = "debounce" /\ t.timer = 0
        /\ Resume(t, debounce_done(variant, mode, World, t))

----------------------------------------------------------------------------

Next ==
    \/ Start
    \/ Stop
    \/ NewMessage
    \/ MessageEdited
    \/ Tick
    \/ SweepWake
    \/ SweepReset
    \/ TriggerDelayDone
    \/ WaitPoll
    \/ HistoryReturn
    \/ ClickReturn
    \/ ClickDelayDone
    \/ GraceDone
    \/ CheckStart
    \/ DebounceDone

Spec == Init /\ [][Next]_vars

----------------------------------------------------------------------------
(* The StateMachine on its own: its operations called in any order *)

SMOps == { "start_automation", "complete_step_1", "complete_step_2",
           "complete_automation", "error", "reset" }

\* the StateMachine operation `op` called with message id `id`
Call(op, m, id) ==
    CASE op = "start_automation" -> start_automation(m, id)
      [] op = "complete_step_1" -> complete_step_1(m, id)
      [] op = "complete_step_2" -> complete_step_2(m, id)
      [] op = "complete_automation" -> complete_automation(m)
      [] op = "error" -> error(m)
      [] OTHER -> reset(m)

SMInit == Init /\ variant = "base"

SMCall ==
    /\ Len(state_machine.state_history) < MaxCalls
    /\ \E op \in SMOps, id \in MsgIds :
         /\ state_machine' = Call(op, state_machine, id)
         /\ lastOp' = op
    /\ UNCHANGED << unit, variant, mode, is_running, started, current_message_id,
                    last_button_texts, button_cache, last_edits, click_executor, metrics,
                    message_monitor, tasks, sweep, observed >>

AutomationState == { "IDLE", "STEP_1", "STEP_2", "STEP_3", "COMPLETED", "ERROR" }

ContextKeys == { "trigger_message_id", "step_1_message_id", "step_2_message_id" }

\* transition_to(new_state, reason, **context) called directly, with no
\* context or with one context value; lastOp is then the key passed
SMTransition ==
    /\ Len(state_machine.state_history) < MaxCalls
    /\ \E new_state \in AutomationState, key \in ContextKeys \cup {""}, id \in MsgIds :
         /\ state_machine' = transition_to(state_machine, new_state, key, id)
         /\ lastOp' = IF key = "" THEN "transition_to" ELSE key
    /\ UNCHANGED << unit, variant, mode, is_running, started, current_message_id,
                    last_button_texts, button_cache, last_edits, click_executor, metrics,
                    message_monitor, tasks, sweep, observed >>

SMNext == SMCall \/ SMTransition

SpecSM == SMInit /\ [][SMNext]_vars

----------------------------------------------------------------------------
(* ButtonCache and FastButtonCache on their own: any sequence of            *)
(* update_message, get_message, get_latest_message and clear on a cache of  *)
(* capacity 0..MaxCap.  variant "base" is ButtonCache, "fast" is            *)
(* FastButtonCache.  Successive datetime.now() readings of ButtonCache are  *)
(* taken to increase, so that its order by last_edit_time is the order of   *)
(* the updates.                                                             *)

CacheIds == 1..(MaxCap + 1)

CacheContents == { Content(TRIGGER_TEXT, MenuButtons), Content(OtherText, ConfirmButtons) }

\* the ids of the entries of c, in the order of c
Ids(c) == [i \in 1..Len(c) |-> c[i].message_id]

IdSet(c) == { c[i].message_id : i \in 1..Len(c) }

\* the sequence of ids q with id moved (or added) to its end
Moved(q, id) == Append(SelectSeq(q, LAMBDA x : x # id), id)

\* the sequence of ids q restricted to the ids in S
Kept(q, S) == SelectSeq(q, LAMBDA x : x \in S)

\* the MessageData object a reader obtained from get_message, as the reader
\* sees it after update_message(id, text, buttons): ButtonCache assigns the
\* fields of the object it holds, FastButtonCache stores a new object
snapshot_after_update(v, snap, live, id, text, buttons) ==
    IF v = "base" /\ live /\ snap.message_id = id
    THEN MessageData(id, text, buttons)
    ELSE snap

\* unit in SpecCache.  capacity: max_messages / max_size.  snap, live: the
\* object last returned by get_message and whether the cache still holds that
\* very object.  result: what the last get_message or get_latest_message
\* returned.  History: arg, the arguments of the last call; evicted, the ids
\* the last call removed; updated and used, the ids held in the order of
\* their last update and of their last update or successful get
CacheInit ==
    /\ Constructed
    /\ variant \in {"base", "fast"}
    /\ mode = "full_cycle"
    /\ \E cap \in 0..MaxCap :
         unit = [ kind |-> "cache", capacity |-> cap, snap |-> NoData, live |-> FALSE,
                  result |-> NoData, arg |-> NoData, evicted |-> {},
                  updated |-> <<>>, used |-> <<>> ]

CacheFrame ==
    UNCHANGED << variant, mode, is_running, started, state_machine, current_message_id,
                 last_button_texts, last_edits, click_executor, metrics,
                 message_monitor, tasks, sweep, observed >>

\* update_message(id, chat_id, text, buttons)
CacheUpdate ==
    \E id \in CacheIds, content \in CacheContents :
        LET c == cache_update(variant, button_cache, unit.capacity, id,
                              content.text, content.buttons)
            gone == IdSet(Append(button_cache, MessageData(id, "", <<>>))) \ IdSet(c)
        IN  /\ button_cache' = c
            /\ unit' = [unit EXCEPT
                  !.snap = snapshot_after_update(variant, unit.snap, unit.live, id,
                                                 content.text, content.buttons),
                  !.live = @ /\ unit.snap.message_id \notin gone,
                  !.arg = MessageData(id, content.text, content.buttons),
                  !.evicted = gone,
                  !.updated = Kept(Moved(@, id), IdSet(c)),
                  !.used = Kept(Moved(@, id), IdSet(c))]
            /\ lastOp' = "update_message"
            /\ CacheFrame

\* get_message(id)
CacheGet ==
    \E id \in CacheIds :
        LET found == cache_get(button_cache, id) IN
        /\ button_cache' = cache_touch(variant, button_cache, id)
        /\ unit' = [unit EXCEPT
              !.result = found,
              !.snap = IF found = NoData THEN @ ELSE found,
              !.live = IF found = NoData THEN @ ELSE TRUE,
              !.arg = MessageData(id, "", <<>>),
              !.evicted = {},
              !.used = IF found = NoData THEN @ ELSE Moved(@, id)]
        /\ lastOp' = "get_message"
        /\ CacheFrame

\* get_latest_message()
CacheLatest ==
    /\ unit' = [unit EXCEPT !.result = cache_latest(button_cache),
                            !.arg = NoData, !.evicted = {}]
    /\ button_cache' = button_cache
    /\ lastOp' = "get_latest_message"
    /\ CacheFrame

\* clear()
CacheClear ==
    /\ button_cache' = <<>>
    /\ unit' = [unit EXCEPT !.live = FALSE, !.arg = NoData,
                            !.evicted = IdSet(button_cache),
                            !.updated = <<>>, !.used = <<>>]
    /\ lastOp' = "clear"
    /\ CacheFrame

CacheNext == CacheUpdate \/ CacheGet \/ CacheLatest \/ CacheClear

SpecCache == CacheInit /\ [][CacheNext]_vars

----------------------------------------------------------------------------
(* StabilizationDetector ("base") and FastStabilizationDetector ("fast") on *)
(* their own, with every strategy and an absolute clock.  The clock counts  *)
(* ticks of this specification; the threshold is a number of ticks, the     *)
(* one-second window of get_edit_frequency is FREQUENCY_WINDOW ticks and    *)
(* the 20 timestamps kept per message are scaled to MAX_HISTORY.  Halves    *)
(* and means are compared exactly, by cross-multiplication.                 *)

FREQUENCY_WINDOW == 2
MAX_HISTORY == 3

Strategies == {"wait", "predict", "aggressive"}

NewDetector ==
    [ last_edit |-> [id \in MsgIds |-> NoTime], edit_times |-> [id \in MsgIds |-> <<>>] ]

\* the last MAX_HISTORY elements of q
Recent(q) == IF Len(q) > MAX_HISTORY THEN SubSeq(q, Len(q) - MAX_HISTORY + 1, Len(q)) ELSE q

\* record_edit that keeps the time of the first edit of a message
record_edit_first_only(v, strategy, d, id, now) ==
    [ last_edit |-> [d.last_edit EXCEPT ![id] = IF @ = NoTime THEN now ELSE @],
      edit_times |-> IF v = "base" \/ strategy = "predict"
                     THEN [d.edit_times EXCEPT ![id] = Recent(Append(@, now))]
                     ELSE d.edit_times ]

\* record_edit(id) at time now: StabilizationDetector always keeps the
\* history (EditHistory.add_edit), FastStabilizationDetector only under
\* 'predict' (a deque of maxlen max_history)
record_edit_at(v, strategy, d, id, now) ==
    [ last_edit |-> [d.last_edit EXCEPT ![id] = now],
      edit_times |-> IF v = "base" \/ strategy = "predict"
                     THEN [d.edit_times EXCEPT ![id] = Recent(Append(@, now))]
                     ELSE d.edit_times ]

\* EditHistory.get_edit_frequency(1.0) < 0.5: no timestamp within the window
frequency_below_half(times, now) ==
    \A i \in 1..Len(times) : ~(times[i] >= now - FREQUENCY_WINDOW)

\* EditHistory.get_average_interval() > 0: the mean of the consecutive
\* differences is (last - first) / (n - 1)
average_interval_positive(times) == Len(times) >= 2 /\ times[Len(times)] > times[1]

\* elapsed > 2 * (mean interval between consecutive timestamps)
exceeds_twice_average(times, elapsed) ==
    elapsed * (Len(times) - 1) > 2 * (times[Len(times)] - times[1])

\* StabilizationDetector._predict_stabilization
predict_stabilization(threshold, times, elapsed, now) ==
    IF elapsed < threshold THEN FALSE
    ELSE IF frequency_below_half(times, now) THEN TRUE
    ELSE average_interval_positive(times) /\ exceeds_twice_average(times, elapsed)

\* the 'predict' branch of FastStabilizationDetector.is_stabilized
fast_predict(threshold, times, elapsed) ==
    IF elapsed < threshold THEN FALSE
    ELSE IF Len(times) < 2 THEN elapsed >= threshold
    ELSE exceeds_twice_average(times, elapsed)

\* clear_history that keeps the time of the last edit
clear_history_times_only(d, message_id) ==
    [ last_edit |-> d.last_edit,
      edit_times |-> [id \in MsgIds |->
                        IF message_id = None \/ message_id = id THEN <<>> ELSE d.edit_times[id]] ]

\* clear_history(message_id); None clears every message
clear_history(d, message_id) ==
    [ last_edit |-> [id \in MsgIds |->
                       IF message_id = None \/ message_id = id THEN NoTime ELSE d.last_edit[id]],
      edit_times |-> [id \in MsgIds |->
                        IF message_id = None \/ message_id = id THEN <<>> ELSE d.edit_times[id]] ]

\* is_stabilized(id) at time now with the full threshold under 'aggressive'
is_stabilized_full_threshold(v, strategy, threshold, d, id, now) ==
    d.last_edit[id] # NoTime /\ strategy \in {"wait", "aggressive"}
                            /\ now - d.last_edit[id] >= threshold

\* is_stabilized(id) at time now
is_stabilized_at(v, strategy, threshold, d, id, now) ==
    IF d.last_edit[id] = NoTime THEN FALSE
    ELSE LET elapsed == now - d.last_edit[id] IN
         CASE strategy = "wait" -> elapsed >= threshold
           [] strategy = "aggressive" -> 2 * elapsed >= threshold
           [] strategy = "predict" ->
                IF v = "base"
                THEN predict_stabilization(threshold, d.edit_times[id], elapsed, now)
                ELSE fast_predict(threshold, d.edit_times[id], elapsed)
           [] OTHER -> FALSE

\* unit in SpecDetector.  strategy, threshold: as constructed.  now: the
\* clock.  detector: the detector's dictionaries.  result: what the last
\* is_stabilized returned.  History: arg, the id of the last call; recorded,
\* per id the time of its last record_edit call; edits, per id the number of
\* its record_edit calls, counted up to 2 (both since the last clear_history
\* of the id); cleared, per id whether clear_history was its last call
DetectorInit ==
    /\ Constructed
    /\ variant \in {"base", "fast"}
    /\ mode = "full_cycle"
    /\ \E strategy \in Strategies, threshold \in 1..MaxThreshold :
         unit = [ kind |-> "detector", strategy |-> strategy, threshold |-> threshold,
                  now |-> 0, detector |-> NewDetector, result |-> FALSE, arg |-> None,
                  recorded |-> [id \in MsgIds |-> NoTime],
                  edits |-> [id \in MsgIds |-> 0],
                  cleared |-> [id \in MsgIds |-> FALSE] ]

DetectorFrame ==
    UNCHANGED << variant, mode, is_running, started, state_machine, current_message_id,
                 last_button_texts, button_cache, last_edits, click_executor, metrics,
                 message_monitor, tasks, sweep, observed >>

\* record_edit(id)
DetectorRecord ==
    \E id \in MsgIds :
        /\ unit' = [unit EXCEPT
              !.detector = record_edit_at(variant, unit.strategy, @, id, unit.now),
              !.arg = id,
              !.recorded = [@ EXCEPT ![id] = unit.now],
              !.edits = [@ EXCEPT ![id] = IF @ < 2 THEN @ + 1 ELSE @],
              !.cleared = [@ EXCEPT ![id] = FALSE]]
        /\ lastOp' = "record_edit"
        /\ DetectorFrame

\* is_stabilized(id)
DetectorQuery ==
    \E id \in MsgIds :
        /\ unit' = [unit EXCEPT
              !.result = is_stabilized_at(variant, unit.strategy, unit.threshold,
                                          unit.detector, id, unit.now),
              !.arg = id]
        /\ lastOp' = "is_stabilized"
        /\ DetectorFrame

\* time passes
DetectorTick ==
    /\ unit.now < MaxClock
    /\ unit' = [unit EXCEPT !.now = @ + 1]
    /\ lastOp' = "other"
    /\ DetectorFrame

\* clear_history(id) or clear_history()
DetectorClear ==
    \E message_id \in MsgIds \cup {None} :
        LET hit(id) == message_id = None \/ message_id = id IN
        /\ unit' = [unit EXCEPT
              !.detector = clear_history(@, message_id),
              !.arg = message_id,
              !.recorded = [id \in MsgIds |-> IF hit(id) THEN NoTime ELSE @[id]],
              !.edits = [id \in MsgIds |-> IF hit(id) THEN 0 ELSE @[id]],
              !.cleared = [id \in MsgIds |-> IF hit(id) THEN TRUE ELSE @[id]]]
        /\ lastOp' = "clear_history"
        /\ DetectorFrame

DetectorNext == DetectorRecord \/ DetectorQuery \/ DetectorTick \/ DetectorClear

SpecDetector == DetectorInit /\ [][DetectorNext]_vars

----------------------------------------------------------------------------
(* ClickExecutor on its own: up to MaxClicks calls of click_button_info,    *)
(* which may be in flight together, and reset_statistics, which has no      *)
(* caller in the repository and is called here between clicks.  The         *)
(* counters are the variable click_executor.  A call is a record: pc is "none" before    *)
(* the call, "press" while GetBotCallbackAnswerRequest is in flight,        *)
(* "sleep" in asyncio.sleep and "returned" afterwards; message_id and data  *)
(* are its arguments; attempt is the loop variable; request is the request  *)
(* in flight; success and kind are the ClickResult (kind stands for its     *)
(* message and error).  History: outcomes, the requests made so far with    *)
(* what became of each; slept, the durations of the sleeps so far.          *)

NoCall ==
    [ pc |-> "none", message_id |-> None, data |-> None, attempt |-> 0,
      request |-> [msg_id |-> None, data |-> None], outcomes |-> <<>>, slept |-> <<>>,
      success |-> FALSE, kind |-> "" ]

\* the seconds a FloodWaitError carries
FloodWaits == {FLOOD_WAIT_CEILING \div 2, FLOOD_WAIT_CEILING, FLOOD_WAIT_CEILING + 1}

\* the controls that are clicked, each with the id of its message
ClickTargets == { <<1, MenuButtons[1]>>, <<2, ConfirmButtons[1]>> }

\* what a request can come to: an answer ("ok") or one of the exceptions
PressOutcomes ==
    { [error |-> o, seconds |-> 0] : o \in {"ok", "stale", "invalid", "timeout", "other"} }
      \cup { [error |-> "flood", seconds |-> n] : n \in FloodWaits }

\* the ClickResult of the except clause that gave up
FailureKind(class) ==
    CASE class = "stale" -> "stale"
      [] class = "invalid" -> "invalid_reference"
      [] class = "timeout" -> "timeout"
      [] class = "flood" -> "rate_limited_too_long"
      [] OTHER -> "unknown"

\* return ClickResult(success=False, ...) that leaves failed_clicks alone
click_fail_uncounted(e, c, kind) ==
    [ exec |-> e,
      call |-> [c EXCEPT !.pc = "returned", !.success = FALSE, !.kind = kind] ]

\* self.failed_clicks += 1; return ClickResult(success=False, ...)
click_fail(e, c, kind) ==
    [ exec |-> [e EXCEPT !.failed_clicks = @ + 1],
      call |-> [c EXCEPT !.pc = "returned", !.success = FALSE, !.kind = kind] ]

\* the head of the for loop with a request that carries the attempt number
click_attempt_numbered(max_retries, e, c) ==
    IF c.attempt < max_retries
    THEN [ exec |-> e,
           call |-> [c EXCEPT !.pc = "press",
                              !.request = [msg_id |-> c.message_id, data |-> c.attempt]] ]
    ELSE click_fail(e, c, "max_retries_exceeded")

\* the head of the for loop: the next request, or the code after the loop
click_attempt(max_retries, e, c) ==
    IF c.attempt < max_retries
    THEN [ exec |-> e,
           call |-> [c EXCEPT !.pc = "press",
                              !.request = [msg_id |-> c.message_id, data |-> c.data]] ]
    ELSE click_fail(e, c, "max_retries_exceeded")

\* click_button_info(message_id, button) up to its first request
click_button(max_retries, e, message_id, button) ==
    click_attempt(max_retries, [e EXCEPT !.total_clicks = @ + 1],
                  [NoCall EXCEPT !.message_id = message_id, !.data = button.callback_data])

\* asyncio.sleep(seconds); continue
click_sleep(e, c, seconds) ==
    [ exec |-> e, call |-> [c EXCEPT !.pc = "sleep", !.slept = Append(@, seconds)] ]

\* the request ends with outcome o, where the last attempt is not told from
\* the others
click_request_done_retrying(max_retries, e, c, o) ==
    LET c1 == [c EXCEPT !.outcomes = Append(@, [request |-> c.request, outcome |-> o])] IN
    CASE o.error = "ok" ->
           [ exec |-> [e EXCEPT !.successful_clicks = @ + 1],
             call |-> [c1 EXCEPT !.pc = "returned", !.success = TRUE, !.kind = "ok"] ]
      [] o.error = "flood" ->
           IF o.seconds > FLOOD_WAIT_CEILING
           THEN click_fail(e, c1, FailureKind(o.error))
           ELSE click_sleep(e, c1, o.seconds)
      [] OTHER ->
           IF c.attempt < max_retries
           THEN click_sleep(e, c1, IF o.error = "invalid" THEN 2 * RETRY_DELAY
                                                          ELSE RETRY_DELAY)
           ELSE click_fail(e, c1, FailureKind(o.error))

\* the request ends with outcome o: the try block and the except clauses
click_request_done(max_retries, e, c, o) ==
    LET c1 == [c EXCEPT !.outcomes = Append(@, [request |-> c.request, outcome |-> o])] IN
    CASE o.error = "ok" ->
           [ exec |-> [e EXCEPT !.successful_clicks = @ + 1],
             call |-> [c1 EXCEPT !.pc = "returned", !.success = TRUE, !.kind = "ok"] ]
      [] o.error = "flood" ->
           IF o.seconds > FLOOD_WAIT_CEILING
           THEN click_fail(e, c1, FailureKind(o.error))
           ELSE click_sleep(e, c1, o.seconds)
      [] OTHER ->
           IF c.attempt < max_retries - 1
           THEN click_sleep(e, c1, IF o.error = "invalid" THEN 2 * RETRY_DELAY
                                                          ELSE RETRY_DELAY)
           ELSE click_fail(e, c1, FailureKind(o.error))

\* the sleep is over: `continue`
click_wake(max_retries, e, c) ==
    click_attempt(max_retries, e, [c EXCEPT !.attempt = @ + 1])

\* unit in SpecClick.  max_retries: as constructed; calls: the calls.
\* History: resets, whether reset_statistics was called
ClickInit ==
    /\ Constructed
    /\ variant = "base"
    /\ \E max_retries \in 0..MaxRetries :
         unit = [ kind |-> "click", max_retries |-> max_retries,
                  calls |-> [i \in 1..MaxClicks |-> NoCall], resets |-> FALSE ]

ClickFrame ==
    UNCHANGED << variant, mode, is_running, started, state_machine, current_message_id,
                 last_button_texts, button_cache, last_edits, metrics,
                 message_monitor, tasks, sweep, observed >>

ClickStep(i, r, op) ==
    /\ click_executor' = r.exec
    /\ unit' = [unit EXCEPT !.calls[i] = r.call]
    /\ lastOp' = op
    /\ ClickFrame

\* click_button_info(message_id, button) is called
ClickCall ==
    \E i \in 1..MaxClicks, target \in ClickTargets :
        /\ unit.calls[i].pc = "none"
        /\ \A j \in 1..(i - 1) : unit.calls[j].pc # "none"
        /\ ClickStep(i, click_button(unit.max_retries, click_executor,
                                     target[1], target[2]), "click_button")

\* a request returns or raises
ClickRequestDone ==
    \E i \in 1..MaxClicks, o \in PressOutcomes :
        /\ unit.calls[i].pc = "press"
        /\ ClickStep(i, click_request_done(unit.max_retries, click_executor,
                                           unit.calls[i], o), "request_done")

\* a sleep is over
ClickWake ==
    \E i \in 1..MaxClicks :
        /\ unit.calls[i].pc = "sleep"
        /\ ClickStep(i, click_wake(unit.max_retries, click_executor, unit.calls[i]),
                     "wake")

\* reset_statistics()
ClickReset ==
    /\ \A i \in 1..MaxClicks : unit.calls[i].pc \notin {"press", "sleep"}
    /\ click_executor' = [total_clicks |-> 0, successful_clicks |-> 0, failed_clicks |-> 0]
    /\ unit' = [unit EXCEPT !.resets = TRUE]
    /\ lastOp' = "reset_statistics"
    /\ ClickFrame

ClickNext == ClickCall \/ ClickRequestDone \/ ClickWake \/ ClickReset

SpecClick == ClickInit /\ [][ClickNext]_vars

----------------------------------------------------------------------------
(* The cache and the edit tracker under the event handlers (base, fast):    *)
(* messages and edits that are not triggers, for a cache of capacity        *)
(* 1..MaxCap and ids 1..MaxCap + 1.  MAX_CACHED_MESSAGES is 10 in           *)
(* src/config.py, more than the MaxMsg messages of Spec, so it is scaled    *)
(* here; nothing in the repository calls clear_history.                     *)

\* MessageMonitor._handle_message and the orchestrator's _handle_message for
\* a message that is not a trigger: the cache (when there are buttons) and
\* the tracker (when it is an edit)
observe_message(v, cap, c, s, id, content, is_edit) ==
    LET buttons == extract_buttons(v, content.buttons) IN
    [ cache |-> IF Len(buttons) > 0
                THEN cache_update(v, c, cap, id, content.text, buttons)
                ELSE c,
      edits |-> IF is_edit THEN record_edit(s, id) ELSE s ]

\* unit in SpecTracked.  capacity: max_messages / max_size; last_edits: the
\* tracker, per id the time since its last recorded edit.  History: cached,
\* the ids the cache has held
TrackedInit ==
    /\ Constructed
    /\ variant \in {"base", "fast"}
    /\ mode = "full_cycle"
    /\ \E capacity \in 1..MaxCap :
         unit = [ kind |-> "tracked", capacity |-> capacity,
                  last_edits |-> [id \in CacheIds |-> NoTime], cached |-> {} ]

\* a message arrives or is edited
TrackedEvent ==
    \E id \in CacheIds, is_edit \in BOOLEAN,
       content \in { Content(OtherText, MenuButtons), Content(OtherText, ConfirmButtons),
                      Content(OtherText, <<>>) } :
        LET r == observe_message(variant, unit.capacity, button_cache, unit.last_edits,
                                 id, content, is_edit)
        IN  /\ button_cache' = r.cache
            /\ unit' = [unit EXCEPT !.last_edits = r.edits,
                                    !.cached = @ \cup IdSet(r.cache)]
            /\ lastOp' = IF is_edit THEN "edit" ELSE "message"
            /\ UNCHANGED << variant, mode, is_running, started, state_machine,
                            current_message_id, last_button_texts, last_edits,
                            click_executor, metrics, message_monitor, tasks, sweep,
                            observed >>

TrackedNext == TrackedEvent

SpecTracked == TrackedInit /\ [][TrackedNext]_vars

----------------------------------------------------------------------------
(* find_button_by_keywords of ButtonAnalyzer ("base") and                   *)
(* FastButtonAnalyzer ("fast") on lists of controls and keywords; the       *)
(* callback_data and the column of a control are its position in the list.  *)

Labels == { "Spisok pryamyh perevozok", "Podtverdit", "Gruz A" }

Keywords == { "pryamyh perevozok", "Podtverd", "GRUZ", "zabronirovat", "" }

RECURSIVE SeqsUpTo(_, _)
\* the sequences over S of length at most n
SeqsUpTo(S, n) ==
    IF n = 0 THEN { <<>> }
    ELSE SeqsUpTo(S, n - 1) \cup
         { Append(q, x) : q \in { r \in SeqsUpTo(S, n - 1) : Len(r) = n - 1 }, x \in S }

\* the ButtonInfo list of the labels q
Controls(q) ==
    [ i \in 1..Len(q) |-> [text |-> q[i], callback_data |-> i, row |-> 0, column |-> i - 1] ]

\* unit in SpecMatch: the arguments, whether the calls were made, and what
\* the first and the second call returned
MatchInit ==
    /\ Constructed
    /\ variant \in {"base", "fast"}
    /\ mode = "full_cycle"
    /\ \E labels \in SeqsUpTo(Labels, MaxControls), keywords \in SeqsUpTo(Keywords, MaxKeywords) :
         unit = [ kind |-> "match", buttons |-> Controls(labels), keywords |-> keywords,
                  calls |-> 0, result |-> NoButton, again |-> NoButton ]

\* find_button_by_keywords(buttons, keywords) is called
MatchCall ==
    /\ unit.calls < 2
    /\ unit' = [unit EXCEPT
          !.calls = @ + 1,
          !.result = IF unit.calls = 0
                     THEN find_button_by_keywords(unit.buttons, unit.keywords) ELSE @,
          !.again = IF unit.calls = 1
                    THEN find_button_by_keywords(unit.buttons, unit.keywords) ELSE @]
    /\ lastOp' = "find_button_by_keywords"
    /\ DetectorFrame

MatchNext == MatchCall

SpecMatch == MatchInit /\ [][MatchNext]_vars

----------------------------------------------------------------------------
(* ButtonAnalyzer and FastButtonAnalyzer called on the same arguments: two  *)
(* lists of controls built from (label, row, column) triples, the           *)
(* callback_data of a control being its position in its list.  A list need  *)
(* not hold a control at [0,0] (extract_buttons skips the buttons without   *)
(* text) and ButtonInfo lists can be built in any order.                    *)

PairLabels == { "Podtverdit", "Gruz A" }

PairPositions == { <<0, 0>>, <<0, 1>>, <<1, 0>> }

PairKeywords == { "Podtverd", "GRUZ" }

\* button_cache.ButtonInfo(text, callback_data, row, column) for the triples q
ButtonInfos(q) ==
    [ i \in 1..Len(q) |->
        [text |-> q[i][1], callback_data |-> i, row |-> q[i][2][1], column |-> q[i][2][2]] ]

\* fast_button_analyzer.ButtonInfo(text, callback_data, row, column)
FastButtonInfos(q) ==
    [ i \in 1..Len(q) |->
        [text |-> q[i][1], callback_data |-> i, row |-> q[i][2][1], column |-> q[i][2][2],
         text_lower |-> Lower(q[i][1])] ]

\* the public attributes of a returned control
Public(r) ==
    [text |-> r.text, callback_data |-> r.callback_data, row |-> r.row, column |-> r.column]

\* unit in SpecAnalyzers: the triples of the two lists, the last operation
\* with its other arguments, and what each analyzer returned (a control in
\* base and fast, a boolean in base_same and fast_same)
AnalyzersInit ==
    /\ Constructed
    /\ variant = "fast"
    /\ mode = "full_cycle"
    /\ \E a \in SeqsUpTo(PairLabels \X PairPositions, MaxPair),
          b \in SeqsUpTo(PairLabels \X PairPositions, MaxPair) :
         unit = [ kind |-> "analyzers", a |-> a, b |-> b, op |-> "none",
                  keywords |-> <<>>, row |-> 0, column |-> 0,
                  base |-> NoButton, fast |-> NoButton,
                  base_same |-> FALSE, fast_same |-> FALSE ]

Analyzed(op, keywords, row, column, base, fast) ==
    /\ unit' = [unit EXCEPT !.op = op, !.keywords = keywords, !.row = row,
                            !.column = column, !.base = Public(base), !.fast = Public(fast),
                            !.base_same = FALSE, !.fast_same = FALSE]
    /\ lastOp' = op
    /\ DetectorFrame

\* get_first_button(a)
AnalyzeFirst ==
    Analyzed("get_first_button", <<>>, 0, 0,
             get_first_button(ButtonInfos(unit.a)),
             fast_get_first_button(FastButtonInfos(unit.a)))

\* find_button_by_keywords(a, keywords)
AnalyzeKeywords ==
    \E keywords \in SeqsUpTo(PairKeywords, MaxKeywords) :
        Analyzed("find_button_by_keywords", keywords, 0, 0,
                 find_button_by_keywords(ButtonInfos(unit.a), keywords),
                 fast_find_button_by_keywords(FastButtonInfos(unit.a), keywords))

\* get_button_at_position(a, row, column)
AnalyzePosition ==
    \E row \in 0..1, column \in 0..1 :
        Analyzed("get_button_at_position", <<>>, row, column,
                 get_button_at_position(ButtonInfos(unit.a), row, column),
                 fast_get_button_at_position(FastButtonInfos(unit.a), row, column))

\* compare_button_structures(a, b)
AnalyzeCompare ==
    /\ unit' = [unit EXCEPT
          !.op = "compare_button_structures", !.keywords = <<>>, !.row = 0, !.column = 0,
          !.base = NoButton, !.fast = NoButton,
          !.base_same = compare_button_structures(ButtonInfos(unit.a), ButtonInfos(unit.b)),
          !.fast_same = fast_compare_button_structures(FastButtonInfos(unit.a),
                                                       FastButtonInfos(unit.b))]
    /\ lastOp' = "compare_button_structures"
    /\ DetectorFrame

AnalyzersNext == AnalyzeFirst \/ AnalyzeKeywords \/ AnalyzePosition \/ AnalyzeCompare

SpecAnalyzers == AnalyzersInit /\ [][AnalyzersNext]_vars

----------------------------------------------------------------------------
(* wait_for_stabilization of both detectors: one call, with edits arriving  *)
(* before and during it.  asyncio.sleep(check_interval) ends exactly        *)
(* check_interval later: a coroutine whose sleep is over runs before time   *)
(* advances.                                                                *)

\* wait_for_stabilization without the max_wait test of its loop
wait_step_no_deadline(v, u) ==
    IF is_stabilized_at(v, u.strategy, u.threshold, u.detector, u.id, u.now)
    THEN [u EXCEPT !.pc = "returned", !.result = TRUE, !.returned_at = u.now,
                   !.polls = @ + 1, !.saw_true = TRUE]
    ELSE [u EXCEPT !.pc = "sleep", !.timer = u.check_interval, !.polls = @ + 1]

\* wait_for_stabilization from its loop test to the next sleep or to its
\* return.  polls counts the calls of is_stabilized, saw_true records that
\* one of them returned True
wait_step(v, u) ==
    IF ~(u.now - u.start_time < u.max_wait)
    THEN [u EXCEPT !.pc = "returned", !.result = FALSE, !.returned_at = u.now]
    ELSE IF is_stabilized_at(v, u.strategy, u.threshold, u.detector, u.id, u.now)
    THEN [u EXCEPT !.pc = "returned", !.result = TRUE, !.returned_at = u.now,
                   !.polls = @ + 1, !.saw_true = TRUE]
    ELSE [u EXCEPT !.pc = "sleep", !.timer = u.check_interval, !.polls = @ + 1]

\* unit in SpecWait.  The detector and the clock as in SpecDetector; max_wait
\* and check_interval: the arguments of the call; pc: "idle" before the call,
\* "sleep" in asyncio.sleep, "returned" after it; start_time; timer: the
\* ticks left of the sleep; result.  History: polls, saw_true, returned_at,
\* edits (the number of record_edit calls) and edited (an edit of the
\* awaited id arrived during the call)
WaitInit ==
    /\ Constructed
    /\ variant \in {"base", "fast"}
    /\ mode = "full_cycle"
    /\ \E strategy \in Strategies, threshold \in 1..MaxThreshold,
          max_wait \in 0..MaxWait, check_interval \in 1..MaxInterval :
         unit = [ kind |-> "wait", strategy |-> strategy, threshold |-> threshold,
                  max_wait |-> max_wait, check_interval |-> check_interval,
                  now |-> 0, detector |-> NewDetector, pc |-> "idle", id |-> None,
                  start_time |-> NoTime, timer |-> 0, result |-> FALSE,
                  polls |-> 0, saw_true |-> FALSE, returned_at |-> NoTime,
                  edits |-> 0, edited |-> FALSE ]

\* wait_for_stabilization(id, max_wait, check_interval) is called
WaitCall ==
    /\ unit.pc = "idle"
    /\ \E id \in MsgIds :
         unit' = wait_step(variant, [unit EXCEPT !.id = id, !.start_time = unit.now])
    /\ lastOp' = "wait_for_stabilization"
    /\ DetectorFrame

\* asyncio.sleep(check_interval) is over
WaitWake ==
    /\ unit.pc = "sleep" /\ unit.timer = 0
    /\ unit' = wait_step(variant, unit)
    /\ lastOp' = "resume"
    /\ DetectorFrame

\* record_edit(id), from a handler that runs while the coroutine sleeps or
\* before it is called
WaitEdit ==
    /\ unit.edits < MaxEdits
    /\ \E id \in MsgIds :
         unit' = [unit EXCEPT
            !.detector = record_edit_at(variant, unit.strategy, @, id, unit.now),
            !.edits = @ + 1,
            !.edited = @ \/ (unit.pc = "sleep" /\ id = unit.id)]
    /\ lastOp' = "record_edit"
    /\ DetectorFrame

\* time passes
WaitTick ==
    /\ unit.now < MaxClock
    /\ ~(unit.pc = "sleep" /\ unit.timer = 0)
    /\ unit' = [unit EXCEPT !.now = @ + 1,
                            !.timer = IF unit.pc = "sleep" THEN @ - 1 ELSE @]
    /\ lastOp' = "other"
    /\ DetectorFrame

WaitNext == WaitCall \/ WaitWake \/ WaitEdit \/ WaitTick

SpecWait == WaitInit /\ [][WaitNext]_vars

----------------------------------------------------------------------------
(* Properties *)

\* the last action handled an event for which _handle_trigger was called
TriggerHandled == lastOp' \in {"trigger_accepted", "trigger_rejected"}

\* C1: a trigger handled while the state machine is not IDLE starts nothing:
\* the state machine (current_state, message ids, total_runs, history) is
\* unchanged and no step-1 coroutine is scheduled; a trigger handled while
\* IDLE moves to STEP_1 and increases total_runs by exactly 1.
C1_TriggerOnlyWhenIdle ==
    [][ TriggerHandled =>
          IF is_idle(state_machine)
          THEN /\ state_machine'.current_state = "STEP_1"
               /\ state_machine'.total_runs = state_machine.total_runs + 1
               /\ \E t \in tasks' \ tasks : t.pc = "delay0" /\ t.step = 1
          ELSE /\ state_machine' = state_machine
               /\ current_message_id' = current_message_id
               /\ \A t \in tasks' \ tasks : t.pc # "delay0" ]_vars

\* a trigger has been ignored during a run started by an earlier trigger
C1_Witness ==
    /\ lastOp = "trigger_rejected"
    /\ ~is_idle(state_machine)
    /\ state_machine.total_runs >= 1


\* the transition table of the workflow: the states an operation may be
\* called from
Legal(op, state) ==
    CASE op = "start_automation" -> state = "IDLE"
      [] op = "complete_step_1" -> state = "STEP_1"
      [] op = "complete_step_2" -> state = "STEP_2"
      [] op = "complete_automation" -> state = "STEP_3"
      [] op = "error" -> state \in {"STEP_1", "STEP_2", "STEP_3"}
      [] OTHER -> TRUE

\* C2: a StateMachine transition operation called from a state from which the
\* transition table does not allow it leaves current_state, the run counters
\* and the history unchanged.
C2_IllegalCallRejected ==
    [][ (lastOp' \in SMOps /\ ~Legal(lastOp', state_machine.current_state))
          => /\ state_machine'.current_state = state_machine.current_state
             /\ state_machine'.total_runs = state_machine.total_runs
             /\ state_machine'.successful_runs = state_machine.successful_runs
             /\ state_machine'.failed_runs = state_machine.failed_runs
             /\ state_machine'.state_history = state_machine.state_history ]_vars

AllowedTransitions ==
    { <<"IDLE", "STEP_1">>, <<"STEP_1", "STEP_2">>, <<"STEP_2", "STEP_3">>,
      <<"STEP_3", "COMPLETED">>,
      <<"STEP_1", "ERROR">>, <<"STEP_2", "ERROR">>, <<"STEP_3", "ERROR">>,
      <<"ERROR", "IDLE">>, <<"COMPLETED", "IDLE">> }

\* C3: every state change the state machine has recorded is one of
\* IDLE->STEP_1, STEP_1->STEP_2, STEP_2->STEP_3, STEP_3->COMPLETED,
\* STEP_n->ERROR, ERROR->IDLE, COMPLETED->IDLE.
C3_OnlyTableTransitions ==
    \A i \in 1..Len(state_machine.state_history) :
        << state_machine.state_history[i].from, state_machine.state_history[i].to >>
            \in AllowedTransitions

\* something is left that can still take the state machine out of ERROR: the
\* sweep's delayed reset, or a coroutine that has not finished
ResetStillPossible == sweep.pc = "delay" \/ tasks # {}

\* C4: whenever the state machine is in ERROR while the automation is
\* running, a reset to IDLE is still to come (no run stays in ERROR forever).
C4_ErrorIsAlwaysReset ==
    (is_running /\ state_machine.current_state = "ERROR") => ResetStillPossible


\* the sweep forces ERROR in this step / ends its delay in this step
SweepForces == sweep.pc = "sleep" /\ sweep'.pc = "delay"
SweepDelayEnds == sweep.pc = "delay" /\ sweep'.pc # "delay"

\* C5: while the automation is running, an active state is never older than
\* its timeout plus one sweep interval (the sweep forces ERROR at its first
\* wake-up after the timeout); the sweep forces ERROR only in an active state
\* whose timeout is exceeded, and when its delay is over it resets to IDLE.
C5_SweepEnforcesTimeout ==
    /\ [](is_running /\ is_active(state_machine)
            => state_machine.state_entered_at
                 <= get_current_timeout(state_machine) + SWEEP_INTERVAL)
    /\ [](sweep.pc = "delay" => sweep.timer <= SWEEP_RESET_DELAY)
    /\ [][ SweepForces =>
             /\ is_active(state_machine)
             /\ state_machine.state_entered_at > get_current_timeout(state_machine)
             /\ state_machine'.current_state = "ERROR" ]_vars
    /\ [][ SweepDelayEnds => state_machine'.current_state = "IDLE" ]_vars

\* the sweep has forced ERROR in STEP_2 and, its delay over, has reset to IDLE
C5_Witness ==
    /\ observed.forced >= 1
    /\ Len(state_machine.state_history) >= 4
    /\ state_machine.state_history[Len(state_machine.state_history) - 1]
         = [from |-> "STEP_2", to |-> "ERROR"]
    /\ state_machine.state_history[Len(state_machine.state_history)]
         = [from |-> "ERROR", to |-> "IDLE"]
    /\ sweep.pc = "sleep"
    /\ is_running

\* C6: once a stabilization wait of a run has timed out, failed_runs has
\* increased by exactly 1 for that run, whichever of the wait and the sweep
\* has seen the timeout first.
C6_UnstableRunFailsOnce ==
    observed.unstable => state_machine.failed_runs = observed.failed_base + 1

\* C7: a coroutine that resumes after the sweep has forced ERROR during its
\* suspension performs no state-machine transition, no press and no counting.
C7_StaleResumeDoesNothing ==
    [][ \A t \in tasks :
          (lastOp' = "resume" /\ t \notin tasks' /\ observed.forced > t.errs)
            => /\ state_machine' = state_machine
               /\ click_executor' = click_executor
               /\ metrics' = metrics
               /\ \A u \in tasks' \ tasks : u.pc # "press" ]_vars

\* C8: a run whose step-1 message stabilized, whose step-1 press succeeded and
\* was answered in time by a new message with buttons, and none of whose
\* presses failed, does not enter ERROR.
C8_AnsweredRunDoesNotFail ==
    (observed.pressed /\ observed.answered /\ ~observed.unstable
       /\ click_executor.failed_clicks = 0)
      => state_machine.current_state # "ERROR"

\* the step coroutine t has not yet finished its press and the delay after it
Unsettled(t) == t.pc \in {"delay0", "wait", "history", "press", "after"}

\* C9: no press of step n+1 is in flight while the coroutine of step n of the
\* same run has not finished its press and the delay that follows it.
C9_PressesInOrder ==
    \A t \in tasks, u \in tasks :
        (t.pc = "press" /\ u.run = t.run /\ u.step + 1 = t.step) => ~Unsettled(u)

\* C10: a press is issued on a message only after a stabilization wait on
\* that same message has returned true, and never on a message that is not
\* stable at that moment.
C10_PressOnlyWhenStable ==
    [][ \A t \in tasks' \ tasks :
          (lastOp' = "resume" /\ t.pc = "press")
            => /\ t.waited_on = t.msg
               /\ is_stabilized(last_edits', t.msg) ]_vars


\* the check coroutine t ends its debounce in this step and the state machine
\* advances from one step to the next
CheckAdvances(t) ==
    /\ lastOp' = "resume"
    /\ t.pc = "debounce" /\ t \notin tasks'
    /\ <<state_machine.current_state, state_machine'.current_state>>
         \in {<<"STEP_1", "STEP_2">>, <<"STEP_2", "STEP_3">>}

\* C11: a check coroutine that finds, for the message of the edit, the labels
\* of the menu the run is acting on or last acted on (a no-op edit) does not
\* advance the state machine to the next step; only a message with other
\* labels advances STEP_1->STEP_2 or STEP_2->STEP_3.
C11_NoOpEditDoesNotAdvance ==
    [][ \A t \in tasks :
          CheckAdvances(t) =>
            get_button_texts(cache_get(button_cache, t.msg).buttons) # observed.acted ]_vars

\* this step is the handling of the event (id, content, is_edit)
EventHandled(id, content, is_edit) ==
    /\ is_running /\ ~Ready
    /\ IF is_edit THEN id <= message_monitor.total_messages
       ELSE id = message_monitor.total_messages + 1
    /\ Deliver(id, content, is_edit)

\* C12: once the handler of a new-message or message-edited event has run,
\* the cache entry of the event's message id holds the event's text and
\* control list (an empty list included) and the stabilization detector has
\* just recorded an edit of that id.
C12_EventIsCachedAndRecorded ==
    [][ \A id \in MsgIds, content \in Contents, is_edit \in BOOLEAN :
          EventHandled(id, content, is_edit) =>
            /\ cache_get(button_cache', id) = MessageData(id, content.text, content.buttons)
            /\ last_edits'[id] = 0 ]_vars

\* C13: after any sequence of update_message, get_message,
\* get_latest_message and clear calls, ButtonCache and FastButtonCache hold
\* at most as many entries as their capacity (capacities 0 and 1 included).
C13_CacheWithinCapacity ==
    unit.kind = "cache" => Len(button_cache) <= unit.capacity

\* an update of a full cache of capacity 1 or more has just evicted an entry
C13_Witness ==
    /\ unit.kind = "cache"
    /\ lastOp = "update_message"
    /\ unit.capacity >= 1
    /\ Len(button_cache) = unit.capacity
    /\ unit.evicted # {}

\* this step is an update_message for an id the cache does not hold, which
\* takes it over its capacity
OverCapacityInsertion ==
    /\ lastOp' = "update_message"
    /\ unit'.arg.message_id \notin IdSet(button_cache)
    /\ Len(button_cache) + 1 > unit.capacity

\* C14: an update for a new id that takes the cache over its capacity evicts
\* exactly one entry, the one whose last update is the oldest among the
\* entries held, whatever get calls were made in between.
C14_EvictsLeastRecentlyUpdated ==
    [][ OverCapacityInsertion =>
          unit'.evicted = { Head(Append(unit.updated, unit'.arg.message_id)) } ]_vars

\* C15: an entry read by get_message after every other entry's last update or
\* get (here: by the call just before) is not the entry the next
\* over-capacity insertion evicts, when the cache holds another entry.
C15_GetRefreshesRecency ==
    [][ ( /\ OverCapacityInsertion
          /\ lastOp = "get_message" /\ unit.result # NoData
          /\ Len(button_cache) >= 2 )
          => unit.result.message_id \notin unit'.evicted ]_vars

\* C16: get_latest_message returns the entry whose update is the most recent
\* among the entries held, or nothing when the cache is empty; a get_message
\* of an older entry does not change that.
C16_LatestIsLastUpdated ==
    (unit.kind = "cache" /\ lastOp = "get_latest_message") =>
        unit.result = IF unit.updated = <<>> THEN NoData
                      ELSE cache_get(button_cache, unit.updated[Len(unit.updated)])

\* C17: after update_message(id, chat, text, buttons) on a cache of capacity
\* 1 or more, get_message(id) returns exactly that text and those buttons,
\* and an object returned by an earlier get_message is as it was.
C17_UpdateReplacesWholesale ==
    [][ (lastOp' = "update_message" /\ unit.capacity >= 1) =>
          /\ cache_get(button_cache', unit'.arg.message_id) = unit'.arg
          /\ unit'.snap = unit.snap ]_vars

----------------------------------------------------------------------------
(* The edit tracker                                                         *)

\* the time since the last record_edit of the id of the last call
Elapsed == unit.now - unit.recorded[unit.arg]

\* the quiet period after the last record_edit of that id is still running:
\* the elapsed time has not reached the threshold, or half of it under
\* 'aggressive'
Quiet ==
    /\ unit.recorded[unit.arg] # NoTime
    /\ IF unit.strategy = "aggressive" THEN 2 * Elapsed < unit.threshold
                                       ELSE Elapsed < unit.threshold

\* C18: under every strategy and threshold and for every message id,
\* is_stabilized(id) returns False from the instant record_edit(id) returns
\* until the time since the most recent record_edit(id) reaches the
\* threshold (half of it under 'aggressive'); a further record_edit(id)
\* starts the period again.
C18_QuietAfterRecordEdit ==
    (unit.kind = "detector" /\ lastOp = "is_stabilized" /\ Quiet) => unit.result = FALSE

\* a second edit of a message restarted the period: a threshold has passed
\* since the first edit, not since the second, and is_stabilized said False
C18_Witness ==
    /\ unit.kind = "detector" /\ lastOp = "is_stabilized" /\ Quiet
    /\ variant = "base" /\ unit.edits[unit.arg] = 2
    /\ unit.now - unit.detector.edit_times[unit.arg][1] >= unit.threshold
    /\ unit.result = FALSE

\* C19: for a message with a recorded edit is_stabilized returns True
\* exactly when the time since the last recorded edit is at least the
\* threshold under 'wait', and at least half the threshold under
\* 'aggressive'; for a message without a recorded edit it returns False
\* under every strategy.
C19_WaitAndAggressive ==
    (unit.kind = "detector" /\ lastOp = "is_stabilized") =>
        IF unit.recorded[unit.arg] = NoTime THEN unit.result = FALSE
        ELSE /\ unit.strategy = "wait" => (unit.result <=> Elapsed >= unit.threshold)
             /\ unit.strategy = "aggressive" => (unit.result <=> 2 * Elapsed >= unit.threshold)

\* under 'aggressive' a message was stable after half the threshold and
\* before the whole of it
C19_Witness ==
    /\ unit.kind = "detector" /\ lastOp = "is_stabilized"
    /\ unit.strategy = "aggressive" /\ unit.recorded[unit.arg] # NoTime
    /\ Elapsed > 0 /\ Elapsed < unit.threshold
    /\ unit.result = TRUE

\* C20: under 'predict', for a message with a recorded edit, is_stabilized
\* returns True exactly when the time since the last recorded edit is at
\* least the threshold and the history of the message holds fewer than two
\* timestamps or that time is more than twice the mean interval between
\* consecutive timestamps of the history, in both detectors.
C20_Predict ==
    (unit.kind = "detector" /\ lastOp = "is_stabilized" /\ unit.strategy = "predict"
       /\ unit.recorded[unit.arg] # NoTime) =>
        LET times == unit.detector.edit_times[unit.arg] IN
        unit.result <=> /\ Elapsed >= unit.threshold
                        /\ \/ Len(times) < 2
                           \/ exceeds_twice_average(times, Elapsed)

\* C21: wait_for_stabilization returns True exactly when one of its calls
\* of is_stabilized, all made before max_wait had elapsed, returned True, and
\* False otherwise; it sleeps between two such calls; and it is never found
\* waiting, nor does it return, later than max_wait plus one check_interval
\* after it was called, whatever edits arrive meanwhile.
C21_WaitTerminates ==
    unit.kind = "wait" =>
        /\ unit.pc = "sleep" =>
              /\ unit.now - unit.start_time < unit.max_wait + unit.check_interval
              /\ ~unit.saw_true
        /\ unit.pc = "returned" =>
              /\ unit.result = unit.saw_true
              /\ unit.returned_at - unit.start_time <= unit.max_wait + unit.check_interval
              /\ unit.result => unit.returned_at - unit.start_time < unit.max_wait

\* the call gave up after several polls while the awaited message was being
\* edited, and returned after max_wait had passed
C21_Witness ==
    /\ unit.kind = "wait" /\ unit.pc = "returned" /\ unit.result = FALSE
    /\ unit.polls >= 2 /\ unit.edited
    /\ unit.returned_at - unit.start_time > unit.max_wait

----------------------------------------------------------------------------
(* The click executor                                                       *)

\* the outcome of the last request of call c
LastOutcome(c) == c.outcomes[Len(c.outcomes)].outcome

\* call c made no request that was rate-limited
NoFlood(c) == \A k \in 1..Len(c.outcomes) : c.outcomes[k].outcome.error # "flood"

\* call c is in flight
InFlight(c) == c.pc \in {"press", "sleep"}

\* C22: a call whose first k requests fail with 'stale message'
\* (k < max_retries) and whose next request succeeds returns success, and
\* the statistics of the executor, after that call alone, report k + 1
\* attempts.
C22_StaleThenSuccessCounted ==
    unit.kind = "click" =>
        \A i \in 1..MaxClicks :
            LET c == unit.calls[i]
                k == Len(c.outcomes) - 1
            IN  ( /\ c.pc = "returned" /\ k >= 0 /\ k < unit.max_retries
                  /\ LastOutcome(c).error = "ok"
                  /\ \A j \in 1..k : c.outcomes[j].outcome.error = "stale" )
                => /\ c.success
                   /\ (~unit.resets /\ \A j \in 1..MaxClicks : j # i => unit.calls[j].pc = "none")
                        => \E f \in DOMAIN click_executor : click_executor[f] = k + 1

\* C23: after a request that fails as rate-limited with a wait of at most
\* FLOOD_WAIT_CEILING seconds the call sleeps for that time and then makes
\* another request, whatever the number of requests it has made.
C23_ShortFloodIsRetried ==
    unit.kind = "click" =>
        \A i \in 1..MaxClicks :
            LET c == unit.calls[i] IN
            ( /\ Len(c.outcomes) > 0 /\ LastOutcome(c).error = "flood"
              /\ LastOutcome(c).seconds <= FLOOD_WAIT_CEILING )
            => \/ c.pc = "sleep" /\ c.slept[Len(c.slept)] = LastOutcome(c).seconds
               \/ c.pc = "press"

\* C24: a request that fails as rate-limited with a wait of more than
\* FLOOD_WAIT_CEILING seconds ends the call at once with a failure: without a
\* sleep, without a further request and with failed_clicks increased by one
\* and nothing else counted; after a wait of exactly FLOOD_WAIT_CEILING
\* seconds the call goes on to another request.
C24_LongFloodFailsAtOnce ==
    [][ unit.kind = "click" =>
          \A i \in 1..MaxClicks :
              LET c == unit.calls[i]
                  d == unit'.calls[i]
              IN  /\ ( /\ Len(d.outcomes) = Len(c.outcomes) + 1
                       /\ LastOutcome(d).error = "flood"
                       /\ LastOutcome(d).seconds > FLOOD_WAIT_CEILING )
                     => /\ d.pc = "returned" /\ ~d.success
                        /\ d.slept = c.slept
                        /\ click_executor' =
                              [click_executor EXCEPT !.failed_clicks = @ + 1]
                  /\ ( /\ Len(d.outcomes) > 0 /\ LastOutcome(d).error = "flood"
                       /\ LastOutcome(d).seconds > FLOOD_WAIT_CEILING )
                     => d.pc = "returned"
                  /\ ( /\ Len(d.outcomes) > 0 /\ LastOutcome(d).error = "flood"
                       /\ LastOutcome(d).seconds = FLOOD_WAIT_CEILING )
                     => d.pc \in {"sleep", "press"} ]_vars

\* C25: a call whose requests fail only as stale, invalid, timed out or in
\* an unexpected way makes at most max_retries requests, returns success at
\* its first successful request, and when its request number max_retries
\* fails returns a failure of the kind of that last error.
C25_RetriesAreBounded ==
    unit.kind = "click" =>
        \A i \in 1..MaxClicks :
            LET c == unit.calls[i]
                n == Len(c.outcomes)
            IN  NoFlood(c) =>
                  /\ n + (IF c.pc = "press" THEN 1 ELSE 0) <= unit.max_retries
                  /\ \A k \in 1..n : c.outcomes[k].outcome.error = "ok" =>
                        k = n /\ c.pc = "returned" /\ c.success
                  /\ (n > 0 /\ n = unit.max_retries /\ LastOutcome(c).error # "ok") =>
                        /\ c.pc = "returned" /\ ~c.success
                        /\ c.kind = FailureKind(LastOutcome(c).error)

\* three requests of one call failed as stale, timed out and invalid, and
\* the call returned the failure of the last
C25_Witness ==
    /\ unit.kind = "click" /\ unit.max_retries = 3
    /\ \E i \in 1..MaxClicks :
         LET c == unit.calls[i] IN
         /\ c.pc = "returned" /\ Len(c.outcomes) = 3
         /\ c.outcomes[1].outcome.error = "stale"
         /\ c.outcomes[2].outcome.error = "timeout"
         /\ c.outcomes[3].outcome.error = "invalid"
         /\ c.kind = "invalid_reference"

----------------------------------------------------------------------------
(* The state machine's clock                                                *)

\* C28: every transition of the state machine, those to ERROR, COMPLETED
\* and IDLE included, sets state_entered_at to the time of the transition
\* (no time has passed since it when the step is over), and
\* is_timeout_exceeded is true exactly when the current state is active and
\* the time since state_entered_at is greater than the timeout of that state.
C28_EnteredAtIsTheOnlyClock ==
    [][ /\ Len(state_machine'.state_history) > Len(state_machine.state_history)
          => state_machine'.state_entered_at = 0
        /\ is_timeout_exceeded(state_machine') <=>
             /\ state_machine'.current_state \in {"STEP_1", "STEP_2", "STEP_3"}
             /\ state_machine'.state_entered_at
                  > StepTimeout(CASE state_machine'.current_state = "STEP_1" -> 1
                                  [] state_machine'.current_state = "STEP_2" -> 2
                                  [] OTHER -> 3) ]_vars

\* the second step has outlasted its timeout, counted from the transition
\* that entered it
C28_Witness ==
    /\ unit.kind = "none"
    /\ state_machine.current_state = "STEP_2"
    /\ Len(state_machine.state_history) >= 2
    /\ state_machine.state_entered_at > STEP_2_TIMEOUT
    /\ is_timeout_exceeded(state_machine)

----------------------------------------------------------------------------
(* The tracker and the cache                                                *)

\* C29: the tracker holds an edit record only for ids that the cache holds
\* or has never held: the record of an id is discarded when the cache evicts
\* the entry of that id.
C29_EvictionDiscardsEditRecord ==
    unit.kind = "tracked" =>
        \A id \in CacheIds :
            unit.last_edits[id] # NoTime =>
                id \in IdSet(button_cache) \/ id \notin unit.cached

----------------------------------------------------------------------------
(* The button analyzer                                                      *)

\* the positions of the controls whose label contains one of the keywords,
\* both in lower case
Matching(buttons, keywords) ==
    { i \in 1..Len(buttons) :
        \E k \in 1..Len(keywords) : IsIn(Lower(keywords[k]), Lower(buttons[i].text)) }

\* C30: find_button_by_keywords returns the first control of the list whose
\* label contains one of the keywords, case ignored, whatever the order of
\* the keywords; it returns None exactly when no control matches a keyword
\* (so also for an empty keyword list); a second call on the same arguments
\* returns the same control.
C30_FirstMatchingControl ==
    (unit.kind = "match" /\ unit.calls >= 1) =>
        LET hits == Matching(unit.buttons, unit.keywords) IN
        /\ hits = {} <=> unit.result = NoButton
        /\ hits # {} =>
              unit.result = unit.buttons[CHOOSE i \in hits : \A j \in hits : i <= j]
        /\ Len(unit.keywords) = 0 => unit.result = NoButton
        /\ unit.calls = 2 => unit.again = unit.result

\* the first control matches the second keyword only, in another case, and
\* the second control matches the first keyword: the first control is
\* returned, twice
C30_Witness ==
    /\ unit.kind = "match" /\ unit.calls = 2
    /\ Len(unit.buttons) >= 2 /\ Len(unit.keywords) = 2
    /\ unit.buttons[1].text = "Podtverdit"
    /\ unit.keywords = << "pryamyh perevozok", "Podtverd" >>
    /\ unit.buttons[2].text = "Spisok pryamyh perevozok"
    /\ unit.result = unit.buttons[1] /\ unit.again = unit.buttons[1]

\* the first position of the list whose control is at [0,0], 0 if there is none
OriginIn(q) ==
    IF \E i \in 1..Len(q) : q[i][2] = <<0, 0>>
    THEN CHOOSE i \in 1..Len(q) :
            q[i][2] = <<0, 0>> /\ \A j \in 1..(i - 1) : q[j][2] # <<0, 0>>
    ELSE 0

\* C31: get_first_button returns the first control of the list that is at
\* row 0, column 0 when there is one, otherwise the first element of the
\* list, and None exactly when the list is empty (both analyzers).
C31_FirstControl ==
    (unit.kind = "analyzers" /\ unit.op = "get_first_button") =>
        LET expected == IF Len(unit.a) = 0 THEN NoButton
                        ELSE IF OriginIn(unit.a) # 0
                             THEN ButtonInfos(unit.a)[OriginIn(unit.a)]
                             ELSE ButtonInfos(unit.a)[1] IN
        /\ unit.base = expected /\ unit.fast = expected
        /\ unit.base = NoButton <=> Len(unit.a) = 0

\* the control at [0,0] is the second of the list and is returned
C31_Witness ==
    /\ unit.kind = "analyzers" /\ unit.op = "get_first_button"
    /\ Len(unit.a) = 2 /\ unit.a[1][2] # <<0, 0>> /\ unit.a[2][2] = <<0, 0>>
    /\ unit.base.callback_data = 2 /\ unit.fast.callback_data = 2

\* C32: compare_button_structures(a, b) is true exactly when a and b have the
\* same length and the same label, row and column at every index (both
\* analyzers); so it is true for (a, a) and false for a reordering of a that
\* differs from a at some index.
C32_SameStructureInOrder ==
    (unit.kind = "analyzers" /\ unit.op = "compare_button_structures") =>
        /\ unit.base_same <=> unit.a = unit.b
        /\ unit.fast_same <=> unit.a = unit.b

\* C39: on the same arguments FastButtonAnalyzer returns what ButtonAnalyzer
\* returns, for get_first_button, find_button_by_keywords,
\* get_button_at_position and compare_button_structures.
C39_FastAgreesWithBase ==
    (unit.kind = "analyzers" /\ unit.op # "none") =>
        unit.fast = unit.base /\ unit.fast_same = unit.base_same

----------------------------------------------------------------------------
(* The edit history of the detectors                                        *)

\* a record_edit(id) step appends the current time to the history of id and
\* drops the oldest entry of a full history
HistoryShifts(id) ==
    LET old == unit.detector.edit_times[id]
        new == unit'.detector.edit_times[id] IN
    /\ new[Len(new)] = unit.now
    /\ Len(old) < MAX_HISTORY => new = Append(old, unit.now)
    /\ Len(old) = MAX_HISTORY =>
          Len(new) = MAX_HISTORY /\ \A i \in 1..(MAX_HISTORY - 1) : new[i] = old[i + 1]

\* C33: the history of edit timestamps of a message never holds more than
\* MAX_HISTORY entries, and they are the most recent ones in recording
\* order; clear_history(id) removes the last-edit time and the history of
\* id, and is_stabilized(id) then returns false until the next
\* record_edit(id).
C33_HistoryIsBoundedAndCleared ==
    [][ unit.kind = "detector" =>
          /\ \A id \in MsgIds : Len(unit'.detector.edit_times[id]) <= MAX_HISTORY
          /\ (lastOp' = "record_edit" /\ (variant = "base" \/ unit.strategy = "predict"))
                => HistoryShifts(unit'.arg)
          /\ lastOp' = "clear_history" =>
                \A id \in MsgIds :
                    (unit'.arg = None \/ unit'.arg = id) =>
                        /\ unit'.detector.last_edit[id] = NoTime
                        /\ unit'.detector.edit_times[id] = <<>>
          /\ (lastOp' = "is_stabilized" /\ unit'.cleared[unit'.arg]) => unit'.result = FALSE
      ]_vars

\* a full history has lost its oldest entry, and a message that had been
\* quiet for the threshold was cleared and is reported as not stabilized
C33_Witness ==
    /\ unit.kind = "detector" /\ lastOp = "is_stabilized"
    /\ unit.cleared[unit.arg] /\ unit.result = FALSE
    /\ unit.now >= MaxThreshold
    /\ \E id \in MsgIds :
          /\ Len(unit.detector.edit_times[id]) = MAX_HISTORY
          /\ unit.detector.edit_times[id][1] > 0

----------------------------------------------------------------------------
(* The run counters and the context of the state machine                    *)

\* C34: successful_runs + failed_runs never exceeds total_runs: a started run
\* is counted as at most one outcome.
C34_OneOutcomePerRun ==
    state_machine.successful_runs + state_machine.failed_runs <= state_machine.total_runs

\* C35: whenever the state machine is IDLE, trigger_message_id,
\* step_1_message_id and step_2_message_id are unset.
C35_IdleHasNoContext ==
    state_machine.current_state = "IDLE" =>
        /\ state_machine.trigger_message_id = None
        /\ state_machine.step_1_message_id = None
        /\ state_machine.step_2_message_id = None

\* a transition to IDLE carried a value for step_1_message_id, from a state
\* in which the context was set
C35_Witness ==
    /\ lastOp = "step_1_message_id"
    /\ state_machine.current_state = "IDLE"
    /\ state_machine.previous_state = "STEP_2"
    /\ state_machine.step_1_message_id = None
    /\ Len(state_machine.state_history) >= 3

\* the records of the history are linked: the first starts at IDLE, each
\* starts where the one before ends, and the last ends at the current state
Chained(m) ==
    LET h == m.state_history IN
    /\ Len(h) > 0 => h[1].from = "IDLE" /\ h[Len(h)].to = m.current_state
    /\ Len(h) = 0 => m.current_state = "IDLE"
    /\ \A i \in 2..Len(h) : h[i].from = h[i - 1].to

\* C36: the transition history is append-only and forms a chain: a step
\* leaves it alone or appends one record, a step that changes the state
\* appends one, and the records are linked from IDLE to current_state.
C36_HistoryIsAChain ==
    [][ LET h == state_machine.state_history
            g == state_machine'.state_history IN
        /\ Len(g) >= Len(h) /\ Len(g) <= Len(h) + 1
        /\ SubSeq(g, 1, Len(h)) = h
        /\ state_machine'.current_state # state_machine.current_state => Len(g) = Len(h) + 1
        /\ Chained(state_machine')
      ]_vars

\* a run has been reset and another started: four linked records
C36_Witness ==
    /\ Len(state_machine.state_history) = 4
    /\ state_machine.state_history[3].to = "IDLE"
    /\ state_machine.state_history[4].to = "STEP_1"
    /\ state_machine.current_state = "STEP_1"

----------------------------------------------------------------------------
(* Coroutines and the orchestrator's lifecycle                              *)

\* C37: after stop() has returned, the state machine stays IDLE and the
\* coroutines that were suspended perform no transition, no press and no
\* counter update when they resume.
C37_NothingAfterStop ==
    [][ (started /\ ~is_running) =>
          /\ state_machine'.current_state = "IDLE"
          /\ [state_machine' EXCEPT !.state_entered_at = 0]
               = [state_machine EXCEPT !.state_entered_at = 0]
          /\ click_executor' = click_executor
          /\ metrics' = metrics
          /\ \A u \in tasks' \ tasks : u.pc # "press" ]_vars

\* C38: at most one click call of an orchestrator is in flight at any time.
C38_OneClickInFlight ==
    Cardinality({ t \in tasks : t.pc = "press" }) <= 1

\* C40: in BotAutomationFast and BotAutomationTDLib, whenever no run is in
\* flight (the state machine is IDLE and no step or check coroutine is
\* alive), total_cycles = successful_cycles + failed_cycles,
\* successful_cycles = successful_runs and failed_cycles = failed_runs.
C40_MetricsFollowTheStateMachine ==
    (variant \in {"fast", "tdlib"} /\ state_machine.current_state = "IDLE" /\ tasks = {}) =>
        /\ metrics.total_cycles = metrics.successful_cycles + metrics.failed_cycles
        /\ metrics.successful_cycles = state_machine.successful_runs
        /\ metrics.failed_cycles = state_machine.failed_runs

=============================================================================
